---- MODULE Spec2Model ----
(***************************************************************************)
(* Boundary exchange of AthenaK mesh-block packs: receive posting          *)
(* (BoundaryValues::InitRecv), flux-correction pack/send and recv/unpack   *)
(* (BoundaryValuesCC::PackAndSendFluxCC / RecvAndUnpackFluxCC), and the    *)
(* blocking clears (ClearRecv / ClearSend), over a one-dimensional mesh    *)
(* distributed over MPI ranks.  The build has MPI_PARALLEL_ENABLED = 1.    *)
(* nvar is 1 throughout, so the variable index v of the buffers is 0 and   *)
(* is not written.                                                         *)
(***************************************************************************)
EXTENDS Integers, Sequences, FiniteSets, TLC

\* ----------------------------------------------------------------- bounds
\* largest exchange key the flux exchange may have been built with
MaxKey == 2
\* largest seed added to the known pattern the fields are filled with
MaxSeed == 0
\* most messages the transport holds unmatched at one time
MaxInFlight == 2
\* number of ghost cells of a block (mb_indcs.ng)
ng == 2
\* number of cells of the coarse representation of a block (mb_indcs.cnx1)
cnx1 == 2
\* largest local block id the tag checks enumerate
MaxLid == 2
MaxWin == 2
MaxNvar == 3
MaxNmb == 2
MaxCalls == 2
MaxArgs == 3

\* ------------------------------------------------------ program constants
\* length of the nghbr / send_buf / recv_buf arrays of a one-dimensional mesh
nnghbr == 8
\* number of buffer slots the tag encoding reserves per block
max_slots == 56

\* --------------------------------------------------------------- geometry
nx1 == 2 * cnx1
is  == ng
ie  == ng + nx1 - 1
cis == ng
cie == ng + cnx1 - 1
Slots == 0 .. (nnghbr - 1)
Cells == 0 .. (nx1 + 2 * ng - 1)
Faces == is .. (ie + 1)

Min(a, b) == IF a < b THEN a ELSE b
Max(a, b) == IF a < b THEN b ELSE a

\* ------------------------------------------------------------------- mesh
\* A mesh is a chain of blocks along x1; block gid g is element g+1.
NoNghbr == [gid |-> -1, lev |-> -1, rank |-> -1, dest |-> -1, ccflx |-> FALSE]

\* slot of the x1-face neighbour in direction ox1 (sub-block 0,0)
NeighborIndx(ox1) == IF ox1 < 0 THEN 0 ELSE 4

Blk(rk, lv) == [rank |-> rk, lev |-> lv]

MeshDescs ==
  { [nranks |-> 1, periodic |-> FALSE, blocks |-> << Blk(0,0), Blk(0,0) >>],
    [nranks |-> 1, periodic |-> TRUE,  blocks |-> << Blk(0,0), Blk(0,0) >>],
    [nranks |-> 1, periodic |-> FALSE, blocks |-> << Blk(0,0), Blk(0,1), Blk(0,1) >>],
    [nranks |-> 1, periodic |-> TRUE,  blocks |-> << Blk(0,0), Blk(0,1) >>],
    [nranks |-> 2, periodic |-> FALSE, blocks |-> << Blk(0,0), Blk(0,0), Blk(1,0) >>],
    [nranks |-> 2, periodic |-> FALSE, blocks |-> << Blk(0,1), Blk(0,1), Blk(1,0) >>] }

NBlocks(d) == Len(d.blocks)
Gids(d) == 0 .. (NBlocks(d) - 1)

\* gid of the block across the x1 face in direction ox1, -1 at a physical boundary
AcrossFace(d, g, ox1) ==
  LET t == g + ox1 IN
  IF t \in Gids(d) THEN t
  ELSE IF d.periodic THEN (IF t < 0 THEN NBlocks(d) - 1 ELSE 0)
  ELSE -1

\* the neighbour record of slot n of block gid g
Nghbr(d, g, n) ==
  IF n \notin {NeighborIndx(-1), NeighborIndx(1)} THEN NoNghbr
  ELSE LET ox1 == IF n = NeighborIndx(-1) THEN -1 ELSE 1
           t   == AcrossFace(d, g, ox1)
       IN IF t < 0 THEN NoNghbr
          ELSE [gid |-> t, lev |-> d.blocks[t + 1].lev, rank |-> d.blocks[t + 1].rank,
                dest |-> NeighborIndx(-ox1), ccflx |-> TRUE]

OwnedBy(d, r) == { g \in Gids(d) : d.blocks[g + 1].rank = r }
FirstGid(d, r) == CHOOSE g \in OwnedBy(d, r) : \A h \in OwnedBy(d, r) : g <= h

\* the tables the mesh layer hands to the boundary subsystem: per rank the
\* first gid (pmesh->gidslist[r], pmy_pack->gids, mb_gid(0)), the number of
\* blocks (nmb_thispack, pmb->nmb), the levels mb_lev(m) and the neighbour
\* records nghbr(m,n)
MakeMesh(d) ==
  [nranks |-> d.nranks,
   gidslist |-> [r \in 0 .. (d.nranks - 1) |-> FirstGid(d, r)],
   nmb |-> [r \in 0 .. (d.nranks - 1) |-> Cardinality(OwnedBy(d, r))],
   mb_lev |-> [r \in 0 .. (d.nranks - 1) |->
                 [m \in 0 .. (Cardinality(OwnedBy(d, r)) - 1) |->
                    d.blocks[FirstGid(d, r) + m + 1].lev]],
   nghbr |-> [r \in 0 .. (d.nranks - 1) |->
                [m \in 0 .. (Cardinality(OwnedBy(d, r)) - 1) |->
                   [n \in Slots |-> Nghbr(d, FirstGid(d, r) + m, n)]]]]

Meshes == { MakeMesh(d) : d \in MeshDescs }

RanksOf(ms) == 0 .. (ms.nranks - 1)
gidslist(ms, r) == ms.gidslist[r]
nmb(ms, r) == ms.nmb[r]
LocalBlocks(ms, r) == 0 .. (ms.nmb[r] - 1)
mb_gid(ms, r, m) == ms.gidslist[r] + m
mb_lev(ms, r, m) == ms.mb_lev[r][m]
nghbr(ms, r, m, n) == ms.nghbr[r][m][n]

\* meshes whose blocks are all at one level
UniformMeshes ==
  { ms \in Meshes : \A r \in RanksOf(ms) : \A m \in LocalBlocks(ms, r) : mb_lev(ms, r, m) = 0 }

\* (block, slot) pairs of rank r with a neighbour, on this rank / on another
Valid(ms, r) ==
  { p \in LocalBlocks(ms, r) \X Slots : nghbr(ms, r, p[1], p[2]).gid >= 0 }
SameRank(ms, r) == { p \in Valid(ms, r) : nghbr(ms, r, p[1], p[2]).rank = r }
CrossRank(ms, r) == { p \in Valid(ms, r) : nghbr(ms, r, p[1], p[2]).rank # r }

\* ------------------------------------------------------------ message tag
\* CreateMPITag(lid, bufid) of the cell-variable exchange
CreateMPITag2(lid, bufid) == lid * max_slots + bufid
\* CreateMPITag(lid, bufid, key) of the flux exchange
CreateMPITag3(lid, bufid, k) == lid * (max_slots * k) + bufid

\* ---------------------------------------------------------- index windows
\* send_buf[n].flux[0] of an x1-face slot: the coarse face the restricted flux
\* is packed for (bis = bie); ndat is the number of faces of the window
FluxSendIndcs(n) ==
  IF n < 4 THEN [bis |-> cis, bie |-> cis, ndat |-> 1]
  ELSE [bis |-> cie + 1, bie |-> cie + 1, ndat |-> 1]
\* recv_buf[n].flux[0] of an x1-face slot: the face of this block that is overwritten
FluxRecvIndcs(n) ==
  IF n < 4 THEN [bis |-> is, bie |-> is, ndat |-> 1]
  ELSE [bis |-> ie + 1, bie |-> ie + 1, ndat |-> 1]
\* send_buf[n].same of an x1-face slot: the ng interior cells next to the face
SameSendIndcs(n) ==
  IF n < 4 THEN [bis |-> is, bie |-> is + ng - 1, ndat |-> ng]
  ELSE [bis |-> ie - ng + 1, bie |-> ie, ndat |-> ng]
\* recv_buf[n].same / .coar / .fine of an x1-face slot: the ng ghost cells
SameRecvIndcs(n) ==
  IF n < 4 THEN [bis |-> is - ng, bie |-> is - 1, ndat |-> ng]
  ELSE [bis |-> ie + 1, bie |-> ie + ng, ndat |-> ng]
CoarRecvIndcs(n) == SameRecvIndcs(n)
FineRecvIndcs(n) == SameRecvIndcs(n)

\* length of the data view of one (block, slot) buffer (AllocateDataView)
BufLen == Max(ng, 1)
ZeroBuf == [i \in 1 .. BufLen |-> 0]

\* ------------------------------------------------------------------ state
VARIABLES
  mesh,           \* the mesh the run was started on (fixed)
  key,            \* exchange key of the flux exchange (fixed)
  mpi,            \* the transport of the run: its error handler, the calls it fails (fixed)
  var_stat,       \* recv_buf[n].var_stat[m] of each rank
  flx_stat,       \* recv_buf[n].flx_stat[m] of each rank
  send_var_stat,  \* send_buf[n].var_stat[m] (set by the constructor, used by no operation)
  send_flx_stat,  \* send_buf[n].flx_stat[m] (set by the constructor, used by no operation)
  recv_var_req,   \* recv_buf[n].var_req[m] (pushed by the constructor, used by no operation)
  send_var_req,   \* send_buf[n].var_req[m] (pushed by the constructor, used by no operation)
  recv_comm_req,  \* recv_buf[n].comm_req[m]
  recv_flx_req,   \* recv_buf[n].flx_req[m]
  send_comm_req,  \* send_buf[n].comm_req[m]
  send_flx_req,   \* send_buf[n].flx_req[m]
  recv_data,      \* recv_buf[n].data(m, 0, .)
  send_data,      \* send_buf[n].data(m, 0, .)
  flx,            \* flx.x1f(m, 0, 0, 0, i) of each rank
  u,              \* cell-centred variable u(m, 0, 0, 0, i) of each rank
  msgs,           \* messages handed to the transport and not yet matched
  irecv_log,      \* the MPI_Irecv calls of the rank's latest InitRecv
  isend_log,      \* the MPI_Isend calls of the rank's latest pack-and-send
  pc,             \* the task each rank ran last
  ret,            \* the TaskStatus that task returned
  polls,          \* parity of the number of polls of the driver's polling loop
  aborted,        \* the transport's error handler has ended the run
  tag_in,         \* tag checks: two (local block id, buffer index) pairs and a key
  tag_out,        \* tag checks: the tags computed for them
  kern,           \* kernel checks: one (block, slot) pass of the flux pack and unpack kernels
  bufs,           \* buffer checks: the windows and shapes InitializeBuffers has set
  prog            \* main program: one run of main on one rank

vars == << mesh, key, mpi, var_stat, flx_stat, send_var_stat, send_flx_stat,
           recv_var_req, send_var_req, recv_comm_req, recv_flx_req,
           send_comm_req, send_flx_req, recv_data, send_data, flx, u, msgs,
           irecv_log, isend_log, pc, ret, polls, aborted, tag_in, tag_out, kern, bufs, prog >>

\* an MPI_Request that was pushed uninitialised by the constructor
UninitReq == [st |-> "uninit", peer |-> -1, tag |-> -1, comm |-> "none", size |-> 0]
\* comm_req[m] of a vector the constructor pushed nothing onto: the vector is
\* empty and the location lies outside it
AbsentReq == [st |-> "absent", peer |-> -1, tag |-> -1, comm |-> "none", size |-> 0]

PerBuf(ms, r, val) == [n \in Slots |-> [m \in LocalBlocks(ms, r) |-> val]]

FluxPattern(sd, g, i) == sd + 100 * (g + 1) + i
CellPattern(sd, g, i) == sd + 1000 * (g + 1) + i

\* the data views of the buffers of rank r: the constructor allocates none;
\* they are allocated, filled with zeros, by the InitializeBuffers call that
\* precedes the first exchange
AllocatedViews(ms, r) == PerBuf(ms, r, ZeroBuf)

\* the transport calls of the exchange
TransportCalls == {"MPI_Irecv", "MPI_Isend", "MPI_Iprobe", "MPI_Test", "MPI_Wait"}
\* a transport: the error handler of its communicators, which ends the run
\* on an error (MPI_ERRORS_ARE_FATAL, the handler a communicator has unless
\* another is set; main sets none) or makes the call return an error code
\* (MPI_ERRORS_RETURN), and the kinds of call that fail in the run, if any
\* (at most two)
Transports ==
  [errhandler : {"fatal", "return"},
   failing : { F \in SUBSET TransportCalls : Cardinality(F) <= 2 }]
\* the transport of a run in which no call fails
ReliableTransport == [errhandler |-> "fatal", failing |-> {}]

\* the state the exchange starts from on transport tr: the vectors as the
\* constructor leaves them (receive and send status undef, var_req and
\* flx_req pushed uninitialised, nothing pushed onto comm_req), the data
\* views as InitializeBuffers allocates them
InitWith(ms, k, sd, tr) ==
  /\ mesh = ms
  /\ key = k
  /\ mpi = tr
  /\ var_stat = [r \in RanksOf(ms) |-> PerBuf(ms, r, "undef")]
  /\ flx_stat = [r \in RanksOf(ms) |-> PerBuf(ms, r, "undef")]
  /\ send_var_stat = [r \in RanksOf(ms) |-> PerBuf(ms, r, "undef")]
  /\ send_flx_stat = [r \in RanksOf(ms) |-> PerBuf(ms, r, "undef")]
  /\ recv_var_req = [r \in RanksOf(ms) |-> PerBuf(ms, r, UninitReq)]
  /\ send_var_req = [r \in RanksOf(ms) |-> PerBuf(ms, r, UninitReq)]
  /\ recv_flx_req = [r \in RanksOf(ms) |-> PerBuf(ms, r, UninitReq)]
  /\ send_flx_req = [r \in RanksOf(ms) |-> PerBuf(ms, r, UninitReq)]
  /\ recv_comm_req = [r \in RanksOf(ms) |-> PerBuf(ms, r, AbsentReq)]
  /\ send_comm_req = [r \in RanksOf(ms) |-> PerBuf(ms, r, AbsentReq)]
  /\ recv_data = [r \in RanksOf(ms) |-> AllocatedViews(ms, r)]
  /\ send_data = [r \in RanksOf(ms) |-> AllocatedViews(ms, r)]
  /\ flx = [r \in RanksOf(ms) |-> [m \in LocalBlocks(ms, r) |->
              [i \in Faces |-> FluxPattern(sd, mb_gid(ms, r, m), i)]]]
  /\ u = [r \in RanksOf(ms) |-> [m \in LocalBlocks(ms, r) |->
              [i \in Cells |-> CellPattern(sd, mb_gid(ms, r, m), i)]]]
  /\ msgs = << >>
  /\ irecv_log = [r \in RanksOf(ms) |-> << >>]
  /\ isend_log = [r \in RanksOf(ms) |-> << >>]
  /\ pc = [r \in RanksOf(ms) |-> "none"]
  /\ ret = [r \in RanksOf(ms) |-> "none"]
  /\ polls = [r \in RanksOf(ms) |-> 0]
  /\ aborted = FALSE

\* the state the exchange starts from when no transport call fails
InitOn(ms, k, sd) == InitWith(ms, k, sd, ReliableTransport)

NoTags == [lid1 |-> 0, buf1 |-> 0, lid2 |-> 0, buf2 |-> 0]

\* no kernel pass set up
NoKern == [stage |-> "none"]

\* no buffer set under check
NoBufs == [hist |-> "none"]
NoProg == [pc |-> "none"]

\* no tag computed yet
NoTagOut == [recv1 |-> -1, recv2 |-> -1, flux1 |-> -1, flux2 |-> -1]

\* the mesh block pack after BoundaryValues::BoundaryValues (every status
\* undef, var_req and flx_req pushed uninitialised, comm_req left empty) and
\* the call of InitializeBuffers that allocates the data views
Init ==
  /\ \E ms \in Meshes : InitOn(ms, 2, 0)
  /\ tag_in = NoTags
  /\ tag_out = NoTagOut
  /\ kern = NoKern
  /\ bufs = NoBufs
  /\ prog = NoProg

Ranks == RanksOf(mesh)

\* the pairs of a set of (block, slot) pairs in the order of the host loops
\* (for m ... for n ...)
RECURSIVE LoopOrder(_)
LoopOrder(S) ==
  IF S = {} THEN << >>
  ELSE LET p == CHOOSE q \in S : \A o \in S : q[1] * nnghbr + q[2] <= o[1] * nnghbr + o[2]
       IN << p >> \o LoopOrder(S \ {p})

Returned(r, task, status) ==
  /\ pc' = [pc EXCEPT ![r] = task]
  /\ ret' = [ret EXCEPT ![r] = status]

\* ---------------------------------------------------------------- InitRecv
\* variant of the posting condition: the rank test inverted
InitRecvPostsSame(r) == SameRank(mesh, r)
\* the pairs InitRecv posts a receive for (gid >= 0 and rank != my_rank)
InitRecvPosts(r) == CrossRank(mesh, r)
\* variant: the flags of the first block only
InitRecvMarksFirst(r) == { p \in Valid(mesh, r) : p[1] = 0 }
\* the pairs whose status flags InitRecv sets to waiting (gid >= 0)
InitRecvMarks(r) == Valid(mesh, r)

\* data_size of the receive posted for (m, n): by the neighbour's level
RecvDataSize(r, m, n) ==
  LET nb == nghbr(mesh, r, m, n) IN
  IF nb.lev < mb_lev(mesh, r, m) THEN CoarRecvIndcs(n).ndat
  ELSE IF nb.lev = mb_lev(mesh, r, m) THEN SameRecvIndcs(n).ndat
  ELSE FineRecvIndcs(n).ndat

\* variant: the tag built with the slot count of the mesh, not max_slots
InitRecvTagNarrow(m, n) == m * nnghbr + n
\* tag of the receive posted for (m, n): local id and buffer index of the
\* receiving block
InitRecvTag(m, n) == CreateMPITag2(m, n)

\* the request MPI_Irecv leaves in recv_buf[n].comm_req[m]
PostedRecv(r, m, n) ==
  [st |-> "active", peer |-> nghbr(mesh, r, m, n).rank, tag |-> InitRecvTag(m, n),
   comm |-> "ccvar_comm", size |-> RecvDataSize(r, m, n)]

\* what a transport call in error ends in: the error handler ends the run,
\* or the call returns an error code
ErrorOutcome == IF mpi.errhandler = "fatal" THEN {"abort"} ELSE {"error"}

\* what a call of MPI_Irecv or MPI_Isend ends in; the code reads neither
\* return value ('(void) MPI_Irecv', 'int ierr = MPI_Isend' with ierr unread)
MPI_Call(c) == IF c \in mpi.failing THEN ErrorOutcome ELSE {"ok"}

\* the request a call of MPI_Irecv that returned an error code leaves: no
\* receive is posted on it
FailedRecv(r, m, n) == [PostedRecv(r, m, n) EXCEPT !.st = "failed"]

\* recv_buf[n].comm_req[m] / send_buf[n].comm_req[m] for the pairs of S: the
\* constructor pushes onto var_req and flx_req and never onto comm_req, so
\* each such access reaches outside an empty vector.  Undefined behaviour:
\* the run ends there (a bounds assertion, a fault), or the location outside
\* the vector is read and written as if it were the element
IndexCommReq(S) == IF S = {} THEN {"no access"} ELSE {"abort", "outside"}

\* the position of the pair (m, n) in the host loops (for m ... for n ...)
LoopIndex(p) == p[1] * nnghbr + p[2]
\* the pairs whose flags InitRecv has set when the loop reaches the first pair
\* it posts a receive for: the receive of a pair is posted before its flags
\* are set, so that pair is not among them
InitRecvMarksBefore(r) ==
  { p \in InitRecvMarks(r) : \A q \in InitRecvPosts(r) : LoopIndex(p) < LoopIndex(q) }

InitRecv(r) ==
  /\ ~aborted
  /\ \E at \in IndexCommReq(InitRecvPosts(r)), rc \in MPI_Call("MPI_Irecv") :
       IF at = "abort" \/ (InitRecvPosts(r) # {} /\ rc = "abort")
       THEN /\ aborted' = TRUE
            /\ irecv_log' = [irecv_log EXCEPT ![r] = << >>]
            /\ var_stat' = [var_stat EXCEPT ![r] =
                 [n \in Slots |-> [m \in LocalBlocks(mesh, r) |->
                    IF <<m, n>> \in InitRecvMarksBefore(r) THEN "waiting" ELSE @[n][m]]]]
            /\ flx_stat' = [flx_stat EXCEPT ![r] =
                 [n \in Slots |-> [m \in LocalBlocks(mesh, r) |->
                    IF <<m, n>> \in InitRecvMarksBefore(r) THEN "waiting" ELSE @[n][m]]]]
            /\ Returned(r, "InitRecv", "none")
            /\ UNCHANGED recv_comm_req
       ELSE /\ aborted' = aborted
            /\ recv_comm_req' = [recv_comm_req EXCEPT ![r] =
                 [n \in Slots |-> [m \in LocalBlocks(mesh, r) |->
                    IF <<m, n>> \notin InitRecvPosts(r) THEN @[n][m]
                    ELSE IF rc = "error" THEN FailedRecv(r, m, n)
                    ELSE PostedRecv(r, m, n)]]]
            /\ irecv_log' = [irecv_log EXCEPT ![r] =
                 [i \in 1 .. Cardinality(InitRecvPosts(r)) |->
                    LET p == LoopOrder(InitRecvPosts(r))[i]
                    IN [m |-> p[1], n |-> p[2], req |-> PostedRecv(r, p[1], p[2])]]]
            /\ var_stat' = [var_stat EXCEPT ![r] =
                 [n \in Slots |-> [m \in LocalBlocks(mesh, r) |->
                    IF <<m, n>> \in InitRecvMarks(r) THEN "waiting" ELSE @[n][m]]]]
            /\ flx_stat' = [flx_stat EXCEPT ![r] =
                 [n \in Slots |-> [m \in LocalBlocks(mesh, r) |->
                    IF <<m, n>> \in InitRecvMarks(r) THEN "waiting" ELSE @[n][m]]]]
            /\ Returned(r, "InitRecv", "complete")
  /\ UNCHANGED << mesh, key, mpi, send_var_stat, send_flx_stat, recv_var_req, send_var_req,
                  tag_in, tag_out, kern, bufs, prog, recv_flx_req, send_comm_req, send_flx_req, recv_data,
                  send_data, flx, u, msgs, isend_log, polls >>

\* ------------------------------------------------------- PackAndSendFluxCC
\* the (block, slot) pairs whose buffer the kernel packs: the slot is flagged
\* ccflx and the neighbour is at a coarser level
FluxPackers(r) ==
  { p \in LocalBlocks(mesh, r) \X Slots :
      /\ nghbr(mesh, r, p[1], p[2]).ccflx
      /\ nghbr(mesh, r, p[1], p[2]).lev < mb_lev(mesh, r, p[1]) }

\* variant: the buffer index of the sender used for the receiver
DestSlotOwn(r, m, n) == n
\* mm and nn: index of the receiving block in this pack, and of its buffer
DestBlock(r, m, n) == nghbr(mesh, r, m, n).gid - gidslist(mesh, r)

\* variant: every sender writes buffer 0 of the receiver
DestSlotFirst(r, m, n) == 0
DestSlot(r, m, n) == nghbr(mesh, r, m, n).dest

\* rflx of coarse face i of an x1-face slot on a one-dimensional mesh
RestrictedFlux(r, m, i) == flx[r][m][2 * i - cis]

\* the buffer after the kernel wrote the window of (m, n) into it
PackFluxInto(old, r, m, n) ==
  LET il == FluxSendIndcs(n).bis
      iu == FluxSendIndcs(n).bie
  IN [x \in 1 .. BufLen |->
        IF x <= iu - il + 1 THEN RestrictedFlux(r, m, il + x - 1) ELSE old[x]]

\* the packers whose record names this rank and a receiving block or buffer
\* that is not of this pack: rbuf[nn].data(mm, ...) lies outside the buffers
FluxWildWrites(r) ==
  { p \in FluxPackers(r) :
      /\ nghbr(mesh, r, p[1], p[2]).rank = r
      /\ \/ DestBlock(r, p[1], p[2]) \notin LocalBlocks(mesh, r)
         \/ DestSlot(r, p[1], p[2]) \notin Slots }

\* how the kernel can end and the passes that have written by then.  A write
\* outside the buffers is undefined behaviour: the run ends there, the
\* passes of the league running in no fixed order so that any of the other
\* passes may have written, or the write lands outside the buffers and
\* every pass runs
KernelRuns(r) ==
  IF FluxWildWrites(r) = {} THEN { [end |-> "done", ran |-> FluxPackers(r)] }
  ELSE { [end |-> "outside", ran |-> FluxPackers(r)] }
       \cup { [end |-> "abort", ran |-> P] : P \in SUBSET (FluxPackers(r) \ FluxWildWrites(r)) }

\* the packers among P that write recv_buf[nn].data(mm, ...) of this rank
FluxWritersOf(P, r, mm, nn) ==
  { p \in P :
      /\ nghbr(mesh, r, p[1], p[2]).rank = r
      /\ DestBlock(r, p[1], p[2]) = mm
      /\ DestSlot(r, p[1], p[2]) = nn }

\* recv_buf[.].data and send_buf[.].data after the passes P of the kernel
FluxRecvData(r, P) ==
  [n \in Slots |-> [m \in LocalBlocks(mesh, r) |->
     IF FluxWritersOf(P, r, m, n) = {} THEN recv_data[r][n][m]
     ELSE LET p == CHOOSE q \in FluxWritersOf(P, r, m, n) : TRUE
          IN PackFluxInto(recv_data[r][n][m], r, p[1], p[2])]]

FluxSendData(r, P) ==
  [n \in Slots |-> [m \in LocalBlocks(mesh, r) |->
     IF <<m, n>> \in P /\ nghbr(mesh, r, m, n).rank # r
     THEN PackFluxInto(send_data[r][n][m], r, m, n)
     ELSE send_data[r][n][m]]]

\* variant: the rank test of the host loop inverted
FluxMarksCross(r) == CrossRank(mesh, r)
\* the pairs of the host loop that mark the destination status received
FluxMarks(r) == SameRank(mesh, r)
\* the pairs of the host loop that issue a send
FluxSends(r) == CrossRank(mesh, r)
\* the marking pairs the host loop has passed when it reaches its first send
FluxMarksBefore(r) ==
  { p \in FluxMarks(r) : \A q \in FluxSends(r) : LoopIndex(p) < LoopIndex(q) }

\* variant: the marking pairs set back to undef
FluxMarkedStatUndef == "undef"
\* the status written for every marking pair
FluxMarkedStat == "received"

\* tag of a flux send to buffer nn of the block with local id lid
FluxTag(lid, nn, k) == CreateMPITag3(lid, nn, k)

\* tag of the send of (m, n): local id and buffer index of the receiving block
FluxSendTag(r, m, n) ==
  LET nb == nghbr(mesh, r, m, n)
  IN FluxTag(nb.gid - gidslist(mesh, nb.rank), nb.dest, key)

\* the request MPI_Isend leaves in send_buf[n].flx_req[m]
PostedFluxSend(r, m, n) ==
  [st |-> "active", peer |-> nghbr(mesh, r, m, n).rank, tag |-> FluxSendTag(r, m, n),
   comm |-> "MPI_COMM_WORLD", size |-> FluxSendIndcs(n).ndat]

\* the request a call of MPI_Isend that returned an error code leaves
FailedFluxSend(r, m, n) == [PostedFluxSend(r, m, n) EXCEPT !.st = "failed"]

\* the message MPI_Isend hands to the transport; lid and bufid name the
\* receiving block and buffer it is meant for (they take no part in matching)
FluxMessage(r, m, n, sdata) ==
  LET nb == nghbr(mesh, r, m, n)
  IN [comm |-> "MPI_COMM_WORLD", src |-> r, dst |-> nb.rank,
      tag |-> FluxSendTag(r, m, n),
      data |-> SubSeq(sdata[n][m], 1, FluxSendIndcs(n).ndat),
      lid |-> nb.gid - gidslist(mesh, nb.rank), bufid |-> nb.dest]

PackAndSendFluxCC(r) ==
  /\ ~aborted
  /\ Len(msgs) + Cardinality(FluxSends(r)) <= MaxInFlight
  /\ \E run \in KernelRuns(r), rc \in MPI_Call("MPI_Isend") :
       LET stops == FluxSends(r) # {} /\ rc = "abort"
           marks == IF stops THEN FluxMarksBefore(r) ELSE FluxMarks(r)
           sent == [i \in 1 .. Cardinality(FluxSends(r)) |->
                      LET p == LoopOrder(FluxSends(r))[i]
                      IN FluxMessage(r, p[1], p[2], FluxSendData(r, run.ran))]
       IN /\ recv_data' = [recv_data EXCEPT ![r] = FluxRecvData(r, run.ran)]
          /\ send_data' = [send_data EXCEPT ![r] = FluxSendData(r, run.ran)]
          /\ IF run.end = "abort"
             THEN /\ aborted' = TRUE
                  /\ UNCHANGED << flx_stat, send_flx_req, msgs, isend_log, pc, ret >>
             ELSE /\ flx_stat' = [flx_stat EXCEPT ![r] =
                       [n \in Slots |-> [m \in LocalBlocks(mesh, r) |->
                          IF \E p \in marks : DestBlock(r, p[1], p[2]) = m
                                               /\ DestSlot(r, p[1], p[2]) = n
                          THEN FluxMarkedStat ELSE @[n][m]]]]
                  /\ IF stops
                     THEN /\ aborted' = TRUE
                          /\ UNCHANGED << send_flx_req, msgs, isend_log >>
                          /\ Returned(r, "PackAndSendFluxCC", "none")
                     ELSE /\ aborted' = aborted
                          /\ send_flx_req' = [send_flx_req EXCEPT ![r] =
                               [n \in Slots |-> [m \in LocalBlocks(mesh, r) |->
                                  IF <<m, n>> \notin FluxSends(r) THEN @[n][m]
                                  ELSE IF rc = "error" THEN FailedFluxSend(r, m, n)
                                  ELSE PostedFluxSend(r, m, n)]]]
                          /\ msgs' = IF rc = "error" THEN msgs ELSE msgs \o sent
                          /\ isend_log' = [isend_log EXCEPT ![r] = sent]
                          /\ Returned(r, "PackAndSendFluxCC", "complete")
  /\ UNCHANGED << mesh, key, mpi, send_var_stat, send_flx_stat, recv_var_req, send_var_req,
                  tag_in, tag_out, kern, bufs, prog, var_stat, recv_comm_req, recv_flx_req, send_comm_req,
                  flx, u, irecv_log, polls >>

\* ----------------------------------------------------- RecvAndUnpackFluxCC
\* what MPI_Test can do with a request: report completion ("true"), report
\* the transfer still pending ("false"), return an error code ("error") or
\* not return, the run ended ("abort").  A call in error, or on a transfer
\* that failed, ends as the error handler has it.  A call on an
\* uninitialised request, or on a location outside the vector that nothing
\* was written to, is undefined behaviour: it has every outcome.
MPI_Test(req) ==
  IF "MPI_Test" \in mpi.failing \/ req.st = "failed" THEN ErrorOutcome
  ELSE IF req.st \in {"uninit", "absent"} THEN {"true", "false", "abort"} \cup ErrorOutcome
  ELSE IF req.st = "active" THEN {"false"}
  ELSE {"true"}

\* variant: a test or wait that reported completion leaves the handle as it was
CompletedKeepsHandle(req) == req
\* the request after a test or wait that reported completion: the handle is
\* set to MPI_REQUEST_NULL, on which every later test or wait completes.  A
\* location outside the vector that nothing was written to stays what it
\* is: every later access to it is undefined again, whatever it holds
Completed(req) == IF req.st = "absent" THEN req ELSE [req EXCEPT !.st = "null"]

\* what MPI_Iprobe(MPI_ANY_SOURCE, MPI_ANY_TAG, MPI_COMM_WORLD, &test) ends
\* in: the flag it writes, true only if a message for this rank is pending on
\* MPI_COMM_WORLD; a call in error ends the run or returns an error code,
\* which the code does not read, and writes no flag
MPI_Iprobe(r) ==
  IF "MPI_Iprobe" \in mpi.failing THEN ErrorOutcome
  ELSE IF \E i \in 1 .. Len(msgs) : msgs[i].dst = r /\ msgs[i].comm = "MPI_COMM_WORLD"
  THEN {"true", "false"} ELSE {"false"}

\* the value of 'int test' after MPI_Iprobe: the flag written, or, when the
\* call wrote none, whatever the uninitialised variable holds
TestAfterProbe(probe) == IF probe = "error" THEN {TRUE, FALSE} ELSE {probe = "true"}

\* the value of test after the poll of the i-th pair of order: MPI_Test sets
\* it, unless the call returned an error code, which the code does not look
\* at: test then holds what the poll before left in it, or its value test0
\* after MPI_Iprobe (read in no other case)
RECURSIVE TestFlag(_, _, _, _)
TestFlag(order, out, test0, i) ==
  IF i = 0 THEN test0
  ELSE IF out[order[i]] = "true" THEN TRUE
  ELSE IF out[order[i]] = "false" THEN FALSE
  ELSE TestFlag(order, out, test0, i - 1)

\* variant: step 1 compares the status with undef
FluxOutstandingUndef(r, m, n) == flx_stat[r][n][m] = "undef"
\* the pairs whose handle step 1 polls (neighbour on another rank)
FluxPolls(r) == CrossRank(mesh, r)
\* whether step 1 raises bflag for a same-rank pair
FluxOutstanding(r, m, n) == flx_stat[r][n][m] = "waiting"

\* the pairs whose face flux step 2 overwrites: flagged, neighbour finer
FluxUnpackers(r) ==
  { p \in LocalBlocks(mesh, r) \X Slots :
      /\ nghbr(mesh, r, p[1], p[2]).ccflx
      /\ nghbr(mesh, r, p[1], p[2]).lev > mb_lev(mesh, r, p[1]) }

\* flx.x1f(m, ., i) after step 2
UnpackedFlux(r, m) ==
  [i \in Faces |->
     IF \E n \in Slots : <<m, n>> \in FluxUnpackers(r)
                          /\ i \in FluxRecvIndcs(n).bis .. FluxRecvIndcs(n).bie
     THEN LET n == CHOOSE q \in Slots : <<m, q>> \in FluxUnpackers(r)
                          /\ i \in FluxRecvIndcs(q).bis .. FluxRecvIndcs(q).bie
          IN recv_data[r][n][m][i - FluxRecvIndcs(n).bis + 1]
     ELSE flx[r][m][i]]

RecvAndUnpackFluxCC(r) ==
  /\ ~aborted
  /\ \E out \in [FluxPolls(r) -> {"true", "false", "error", "abort"}] :
     \E probe \in IF "MPI_Iprobe" \in mpi.failing \/ \E p \in FluxPolls(r) : out[p] = "error"
                  THEN MPI_Iprobe(r) ELSE {"false"} :
     \E test0 \in IF \E p \in FluxPolls(r) : out[p] = "error"
                  THEN TestAfterProbe(probe) ELSE {FALSE} :
       LET order == LoopOrder(FluxPolls(r))
           test(p) == TestFlag(order, out, test0, CHOOSE i \in 1 .. Len(order) : order[i] = p)
       IN
       /\ \A p \in FluxPolls(r) : out[p] \in MPI_Test(recv_flx_req[r][p[2]][p[1]])
       /\ IF probe = "abort" \/ \E p \in FluxPolls(r) : out[p] = "abort"
          THEN /\ aborted' = TRUE
               /\ UNCHANGED << flx_stat, recv_flx_req, flx, pc, ret >>
          ELSE /\ aborted' = aborted
               /\ flx_stat' = [flx_stat EXCEPT ![r] =
                    [n \in Slots |-> [m \in LocalBlocks(mesh, r) |->
                       IF <<m, n>> \in FluxPolls(r) /\ test(<<m, n>>)
                       THEN "received" ELSE @[n][m]]]]
               /\ recv_flx_req' = [recv_flx_req EXCEPT ![r] =
                    [n \in Slots |-> [m \in LocalBlocks(mesh, r) |->
                       IF <<m, n>> \in FluxPolls(r) /\ out[<<m, n>>] = "true"
                       THEN Completed(@[n][m]) ELSE @[n][m]]]]
               /\ LET bflag == \/ \E p \in SameRank(mesh, r) : FluxOutstanding(r, p[1], p[2])
                               \/ \E p \in FluxPolls(r) : ~test(p)
                  IN IF bflag
                     THEN /\ flx' = flx
                          /\ Returned(r, "RecvAndUnpackFluxCC", "incomplete")
                     ELSE /\ flx' = [flx EXCEPT ![r] =
                               [m \in LocalBlocks(mesh, r) |-> UnpackedFlux(r, m)]]
                          /\ Returned(r, "RecvAndUnpackFluxCC", "complete")
  /\ UNCHANGED << mesh, key, mpi, send_var_stat, send_flx_stat, recv_var_req, send_var_req,
                  tag_in, tag_out, kern, bufs, prog, var_stat, recv_comm_req, send_comm_req, send_flx_req,
                  recv_data, send_data, u, msgs, irecv_log, isend_log >>

\* ------------------------------------------------------ ClearRecv, ClearSend
\* MPI_Wait returns once the transfer has completed ("true"); it does not
\* return while the transfer is pending; a call in error, or on a transfer
\* that failed, ends as the error handler has it: the call returns an error
\* code ("error") or the run ends ("abort").  On an uninitialised request it
\* may do any of these (or never return).
MPI_Wait(req) ==
  IF "MPI_Wait" \in mpi.failing \/ req.st = "failed" THEN ErrorOutcome
  ELSE IF req.st \in {"uninit", "absent"} THEN {"true", "abort"} \cup ErrorOutcome
  ELSE IF req.st = "active" THEN {}
  ELSE {"true"}

\* variant of the waiting condition of ClearRecv: the rank test inverted
ClearRecvWaitsSame(r) == SameRank(mesh, r)

\* the pairs whose handle ClearRecv / ClearSend waits on
ClearRecvWaits(r) == CrossRank(mesh, r)

ClearSendWaits(r) == CrossRank(mesh, r)

\* ClearRecv and ClearSend do not look at what MPI_Wait returns: after an
\* error code the loop goes on and the task returns complete
ClearRecv(r) ==
  /\ ~aborted
  /\ \E at \in IndexCommReq(ClearRecvWaits(r)),
        wait \in [ClearRecvWaits(r) -> {"true", "error", "abort"}] :
       /\ IF at = "abort" THEN \A p \in ClearRecvWaits(r) : wait[p] = "abort"
          ELSE \A p \in ClearRecvWaits(r) : wait[p] \in MPI_Wait(recv_comm_req[r][p[2]][p[1]])
       /\ IF \E p \in ClearRecvWaits(r) : wait[p] = "abort"
          THEN /\ aborted' = TRUE
               /\ UNCHANGED << recv_comm_req, pc, ret >>
          ELSE /\ aborted' = aborted
               /\ recv_comm_req' = [recv_comm_req EXCEPT ![r] =
                    [n \in Slots |-> [m \in LocalBlocks(mesh, r) |->
                       IF <<m, n>> \in ClearRecvWaits(r) /\ wait[<<m, n>>] = "true"
                       THEN Completed(@[n][m]) ELSE @[n][m]]]]
               /\ Returned(r, "ClearRecv", "complete")
  /\ UNCHANGED << mesh, key, mpi, send_var_stat, send_flx_stat, recv_var_req, send_var_req,
                  tag_in, tag_out, kern, bufs, prog, var_stat, flx_stat, recv_flx_req, send_comm_req,
                  send_flx_req, recv_data, send_data, flx, u, msgs, irecv_log,
                  isend_log, polls >>

ClearSend(r) ==
  /\ ~aborted
  /\ \E at \in IndexCommReq(ClearSendWaits(r)),
        wait \in [ClearSendWaits(r) -> {"true", "error", "abort"}] :
       /\ IF at = "abort" THEN \A p \in ClearSendWaits(r) : wait[p] = "abort"
          ELSE \A p \in ClearSendWaits(r) : wait[p] \in MPI_Wait(send_comm_req[r][p[2]][p[1]])
       /\ IF \E p \in ClearSendWaits(r) : wait[p] = "abort"
          THEN /\ aborted' = TRUE
               /\ UNCHANGED << send_comm_req, pc, ret >>
          ELSE /\ aborted' = aborted
               /\ send_comm_req' = [send_comm_req EXCEPT ![r] =
                    [n \in Slots |-> [m \in LocalBlocks(mesh, r) |->
                       IF <<m, n>> \in ClearSendWaits(r) /\ wait[<<m, n>>] = "true"
                       THEN Completed(@[n][m]) ELSE @[n][m]]]]
               /\ Returned(r, "ClearSend", "complete")
  /\ UNCHANGED << mesh, key, mpi, send_var_stat, send_flx_stat, recv_var_req, send_var_req,
                  tag_in, tag_out, kern, bufs, prog, var_stat, flx_stat, recv_comm_req, recv_flx_req,
                  send_flx_req, recv_data, send_data, flx, u, msgs, irecv_log,
                  isend_log, polls >>

\* --------------------------------------------------------------- transport
\* a send posted on send_buf[n].flx_req[m] completes locally (the message is
\* buffered by the transport)
MPI_FluxSendDone ==
  /\ ~aborted
  /\ \E r \in Ranks : \E p \in LocalBlocks(mesh, r) \X Slots :
       /\ send_flx_req[r][p[2]][p[1]].st = "active"
       /\ send_flx_req' = [send_flx_req EXCEPT ![r][p[2]][p[1]].st = "done"]
  /\ UNCHANGED << mesh, key, mpi, send_var_stat, send_flx_stat, recv_var_req, send_var_req,
                  tag_in, tag_out, kern, bufs, prog, var_stat, flx_stat, recv_comm_req, recv_flx_req,
                  send_comm_req, recv_data, send_data, flx, u, msgs, irecv_log,
                  isend_log, pc, ret, polls, aborted >>

\* a send posted on send_buf[n].comm_req[m] completes locally
MPI_SendDone ==
  /\ ~aborted
  /\ \E r \in Ranks : \E p \in LocalBlocks(mesh, r) \X Slots :
       /\ send_comm_req[r][p[2]][p[1]].st = "active"
       /\ send_comm_req' = [send_comm_req EXCEPT ![r][p[2]][p[1]].st = "done"]
  /\ UNCHANGED << mesh, key, mpi, send_var_stat, send_flx_stat, recv_var_req, send_var_req,
                  tag_in, tag_out, kern, bufs, prog, var_stat, flx_stat, recv_comm_req, recv_flx_req,
                  send_flx_req, recv_data, send_data, flx, u, msgs, irecv_log,
                  isend_log, pc, ret, polls, aborted >>

\* message i matches the receive posted on recv_buf[n].comm_req[m] of rank d:
\* same communicator, source and tag, and no earlier message matches it too
Matches(i, d, m, n) ==
  LET req == recv_comm_req[d][n][m]
      hit(j) == /\ msgs[j].dst = d
                /\ msgs[j].comm = req.comm
                /\ msgs[j].src = req.peer
                /\ msgs[j].tag = req.tag
  IN /\ req.st = "active"
     /\ hit(i)
     /\ \A j \in 1 .. (i - 1) : ~hit(j)

\* the transport delivers a matching message into the posted receive buffer
MPI_Match ==
  /\ ~aborted
  /\ \E i \in 1 .. Len(msgs) : \E d \in Ranks : \E p \in LocalBlocks(mesh, d) \X Slots :
       /\ Matches(i, d, p[1], p[2])
       /\ recv_data' = [recv_data EXCEPT ![d][p[2]][p[1]] =
            [x \in 1 .. BufLen |->
               IF x <= Min(Len(msgs[i].data), recv_comm_req[d][p[2]][p[1]].size)
               THEN msgs[i].data[x] ELSE @[x]]]
       /\ recv_comm_req' = [recv_comm_req EXCEPT ![d][p[2]][p[1]].st = "done"]
       /\ msgs' = [j \in 1 .. (Len(msgs) - 1) |-> IF j < i THEN msgs[j] ELSE msgs[j + 1]]
  /\ UNCHANGED << mesh, key, mpi, send_var_stat, send_flx_stat, recv_var_req, send_var_req,
                  tag_in, tag_out, kern, bufs, prog, var_stat, flx_stat, recv_flx_req, send_comm_req,
                  send_flx_req, send_data, flx, u, irecv_log, isend_log, pc, ret,
                  polls, aborted >>

\* ------------------------------------- cell-variable exchange (same level)
\* PackAndSend of the cell-centred variables between same-level neighbours:
\* the window next to the face is copied into the flattened buffer; a
\* same-rank destination gets it in its receive buffer and its status marked
\* received, another rank gets it as one message per (block, slot).
PackCellsInto(old, r, m, n) ==
  LET il == SameSendIndcs(n).bis
      iu == SameSendIndcs(n).bie
  IN [x \in 1 .. BufLen |-> IF x <= iu - il + 1 THEN u[r][m][il + x - 1] ELSE old[x]]

CellWritersOf(r, mm, nn) ==
  { p \in SameRank(mesh, r) : DestBlock(r, p[1], p[2]) = mm /\ DestSlot(r, p[1], p[2]) = nn }

CellSendData(r) ==
  [n \in Slots |-> [m \in LocalBlocks(mesh, r) |->
     IF <<m, n>> \in CrossRank(mesh, r)
     THEN PackCellsInto(send_data[r][n][m], r, m, n) ELSE send_data[r][n][m]]]

CellSendTag(r, m, n) ==
  LET nb == nghbr(mesh, r, m, n)
  IN CreateMPITag2(nb.gid - gidslist(mesh, nb.rank), nb.dest)

CellMessage(r, m, n, sdata) ==
  LET nb == nghbr(mesh, r, m, n)
  IN [comm |-> "ccvar_comm", src |-> r, dst |-> nb.rank, tag |-> CellSendTag(r, m, n),
      data |-> SubSeq(sdata[n][m], 1, SameSendIndcs(n).ndat),
      lid |-> nb.gid - gidslist(mesh, nb.rank), bufid |-> nb.dest]

PackAndSendCC(r) ==
  /\ ~aborted
  /\ Len(msgs) + Cardinality(CrossRank(mesh, r)) <= MaxInFlight
  /\ recv_data' = [recv_data EXCEPT ![r] =
       [n \in Slots |-> [m \in LocalBlocks(mesh, r) |->
          IF CellWritersOf(r, m, n) = {} THEN @[n][m]
          ELSE LET p == CHOOSE q \in CellWritersOf(r, m, n) : TRUE
               IN PackCellsInto(@[n][m], r, p[1], p[2])]]]
  /\ send_data' = [send_data EXCEPT ![r] = CellSendData(r)]
  /\ var_stat' = [var_stat EXCEPT ![r] =
       [n \in Slots |-> [m \in LocalBlocks(mesh, r) |->
          IF CellWritersOf(r, m, n) # {} THEN "received" ELSE @[n][m]]]]
  /\ send_comm_req' = [send_comm_req EXCEPT ![r] =
       [n \in Slots |-> [m \in LocalBlocks(mesh, r) |->
          IF <<m, n>> \in CrossRank(mesh, r)
          THEN [st |-> "active", peer |-> nghbr(mesh, r, m, n).rank,
                tag |-> CellSendTag(r, m, n), comm |-> "ccvar_comm",
                size |-> SameSendIndcs(n).ndat]
          ELSE @[n][m]]]]
  /\ LET sent == [i \in 1 .. Cardinality(CrossRank(mesh, r)) |->
                    LET p == LoopOrder(CrossRank(mesh, r))[i]
                    IN CellMessage(r, p[1], p[2], CellSendData(r))]
     IN /\ msgs' = msgs \o sent
        /\ isend_log' = [isend_log EXCEPT ![r] = sent]
  /\ Returned(r, "PackAndSendCC", "complete")
  /\ UNCHANGED << mesh, key, mpi, send_var_stat, send_flx_stat, recv_var_req, send_var_req,
                  tag_in, tag_out, kern, bufs, prog, flx_stat, recv_comm_req, recv_flx_req, send_flx_req,
                  flx, u, irecv_log, polls, aborted >>

\* u(m, ., i) after the ghost windows were filled from the receive buffers
UnpackedCells(r, m) ==
  [i \in Cells |->
     IF \E n \in Slots : <<m, n>> \in Valid(mesh, r)
                          /\ i \in SameRecvIndcs(n).bis .. SameRecvIndcs(n).bie
     THEN LET n == CHOOSE q \in Slots : <<m, q>> \in Valid(mesh, r)
                          /\ i \in SameRecvIndcs(q).bis .. SameRecvIndcs(q).bie
          IN recv_data[r][n][m][i - SameRecvIndcs(n).bis + 1]
     ELSE u[r][m][i]]

\* RecvAndUnpack of the cell-centred variables: step 1 skips the pairs marked
\* received and polls the handle of the others whose neighbour is on another
\* rank; step 2 runs once nothing is outstanding.  A poll in error ends the
\* run.
RecvAndUnpackCC(r) ==
  /\ ~aborted
  /\ LET polled == { p \in CrossRank(mesh, r) : var_stat[r][p[2]][p[1]] # "received" }
     IN \E test \in [polled -> {"true", "false", "error", "abort"}] :
       /\ \A p \in polled : test[p] \in MPI_Test(recv_comm_req[r][p[2]][p[1]])
       /\ IF \E p \in polled : test[p] \in {"error", "abort"}
          THEN /\ aborted' = TRUE
               /\ UNCHANGED << var_stat, recv_comm_req, u, pc, ret >>
          ELSE /\ aborted' = aborted
               /\ var_stat' = [var_stat EXCEPT ![r] =
                    [n \in Slots |-> [m \in LocalBlocks(mesh, r) |->
                       IF <<m, n>> \in polled /\ test[<<m, n>>] = "true"
                       THEN "received" ELSE @[n][m]]]]
               /\ recv_comm_req' = [recv_comm_req EXCEPT ![r] =
                    [n \in Slots |-> [m \in LocalBlocks(mesh, r) |->
                       IF <<m, n>> \in polled /\ test[<<m, n>>] = "true"
                       THEN Completed(@[n][m]) ELSE @[n][m]]]]
               /\ LET outstanding ==
                        \/ \E p \in SameRank(mesh, r) : var_stat[r][p[2]][p[1]] # "received"
                        \/ \E p \in polled : test[p] = "false"
                  IN IF outstanding
                     THEN /\ u' = u
                          /\ Returned(r, "RecvAndUnpackCC", "incomplete")
                     ELSE /\ u' = [u EXCEPT ![r] =
                               [m \in LocalBlocks(mesh, r) |-> UnpackedCells(r, m)]]
                          /\ Returned(r, "RecvAndUnpackCC", "complete")
  /\ UNCHANGED << mesh, key, mpi, send_var_stat, send_flx_stat, recv_var_req, send_var_req,
                  tag_in, tag_out, kern, bufs, prog, flx_stat, recv_flx_req, send_comm_req, send_flx_req,
                  recv_data, send_data, flx, msgs, irecv_log, isend_log >>

\* ---------------------------------------------------------- specifications
\* Spec: every rank may call the tasks of the flux exchange in any order.
Next ==
  \/ \E r \in Ranks : InitRecv(r)
  \/ \E r \in Ranks : PackAndSendFluxCC(r)
  \/ \E r \in Ranks : RecvAndUnpackFluxCC(r) /\ UNCHANGED polls
  \/ \E r \in Ranks : ClearRecv(r)
  \/ \E r \in Ranks : ClearSend(r)
  \/ MPI_FluxSendDone

Spec == Init /\ [][Next]_vars

\* SpecCycle: every rank runs the exchange cycle in task order, InitRecv, then
\* PackAndSendFluxCC, then RecvAndUnpackFluxCC re-invoked while it returns
\* incomplete, then ClearRecv and ClearSend; the ranks are not synchronised.
CycleInitRecv(r) == pc[r] \in {"none", "ClearSend"} /\ InitRecv(r)
CyclePackAndSendFluxCC(r) == pc[r] = "InitRecv" /\ PackAndSendFluxCC(r)
CycleRecvAndUnpackFluxCC(r) ==
  /\ \/ pc[r] = "PackAndSendFluxCC"
     \/ pc[r] = "RecvAndUnpackFluxCC" /\ ret[r] = "incomplete"
  /\ RecvAndUnpackFluxCC(r)
  /\ polls' = [polls EXCEPT ![r] = 1 - @]
CycleClearRecv(r) ==
  pc[r] = "RecvAndUnpackFluxCC" /\ ret[r] = "complete" /\ ClearRecv(r)
CycleClearSend(r) == pc[r] = "ClearRecv" /\ ClearSend(r)

RankStep(r) ==
  \/ CycleInitRecv(r)
  \/ CyclePackAndSendFluxCC(r)
  \/ CycleRecvAndUnpackFluxCC(r)
  \/ CycleClearRecv(r)
  \/ CycleClearSend(r)

NextCycle ==
  \/ \E r \in Ranks : CycleInitRecv(r)
  \/ \E r \in Ranks : CyclePackAndSendFluxCC(r)
  \/ \E r \in Ranks : CycleRecvAndUnpackFluxCC(r)
  \/ \E r \in Ranks : CycleClearRecv(r)
  \/ \E r \in Ranks : CycleClearSend(r)
  \/ MPI_FluxSendDone

SpecCycle == Init /\ [][NextCycle]_vars

\* SpecCycleFair: the driver keeps running every rank's task list and the
\* transport keeps making progress.
SpecCycleFair ==
  /\ Init /\ [][NextCycle]_vars
  /\ \A r \in {0, 1} : WF_vars(r \in Ranks /\ RankStep(r))
  /\ WF_vars(MPI_FluxSendDone)

\* SpecCC: every rank runs the cycle of the cell-variable exchange in task
\* order on a mesh whose blocks are all at one level.
InitCC ==
  /\ \E ms \in UniformMeshes, k \in 2 .. MaxKey, sd \in 0 .. MaxSeed : InitOn(ms, k, sd)
  /\ tag_in = NoTags
  /\ tag_out = NoTagOut
  /\ kern = NoKern
  /\ bufs = NoBufs
  /\ prog = NoProg

CCInitRecv(r) == pc[r] \in {"none", "ClearSend"} /\ InitRecv(r)
CCPackAndSend(r) == pc[r] = "InitRecv" /\ PackAndSendCC(r)
CCRecvAndUnpack(r) ==
  /\ \/ pc[r] = "PackAndSendCC"
     \/ pc[r] = "RecvAndUnpackCC" /\ ret[r] = "incomplete"
  /\ RecvAndUnpackCC(r)
  /\ polls' = [polls EXCEPT ![r] = 1 - @]
CCClearRecv(r) == pc[r] = "RecvAndUnpackCC" /\ ret[r] = "complete" /\ ClearRecv(r)
CCClearSend(r) == pc[r] = "ClearRecv" /\ ClearSend(r)

NextCC ==
  \/ \E r \in Ranks : CCInitRecv(r)
  \/ \E r \in Ranks : CCPackAndSend(r)
  \/ \E r \in Ranks : CCRecvAndUnpack(r)
  \/ \E r \in Ranks : CCClearRecv(r)
  \/ \E r \in Ranks : CCClearSend(r)
  \/ MPI_Match
  \/ MPI_SendDone

SpecCC == InitCC /\ [][NextCC]_vars

\* SpecDrain: one cycle of the cell-variable exchange on a mesh whose blocks
\* are all at one level, with a driver that may also issue the flux sends
\* after the cell sends and may go on to the blocking clears without polling
\* RecvAndUnpack to completion.
DrainInitRecv(r) == pc[r] = "none" /\ InitRecv(r)
DrainPackAndSend(r) == pc[r] = "InitRecv" /\ PackAndSendCC(r)
DrainPackAndSendFlux(r) == pc[r] = "PackAndSendCC" /\ PackAndSendFluxCC(r)
DrainRecvAndUnpack(r) ==
  /\ \/ pc[r] \in {"PackAndSendCC", "PackAndSendFluxCC"}
     \/ pc[r] = "RecvAndUnpackCC" /\ ret[r] = "incomplete"
  /\ RecvAndUnpackCC(r)
  /\ polls' = [polls EXCEPT ![r] = 1 - @]
DrainClearRecv(r) ==
  /\ pc[r] \in {"PackAndSendCC", "PackAndSendFluxCC", "RecvAndUnpackCC"}
  /\ ClearRecv(r)
DrainClearSend(r) == pc[r] = "ClearRecv" /\ ClearSend(r)

NextDrain ==
  \/ \E r \in Ranks : DrainInitRecv(r)
  \/ \E r \in Ranks : DrainPackAndSend(r)
  \/ \E r \in Ranks : DrainPackAndSendFlux(r)
  \/ \E r \in Ranks : DrainRecvAndUnpack(r)
  \/ \E r \in Ranks : DrainClearRecv(r)
  \/ \E r \in Ranks : DrainClearSend(r)
  \/ MPI_Match
  \/ MPI_SendDone
  \/ MPI_FluxSendDone

InitDrain ==
  /\ \E ms \in UniformMeshes : InitOn(ms, 2, 0)
  /\ tag_in = NoTags
  /\ tag_out = NoTagOut
  /\ kern = NoKern
  /\ bufs = NoBufs
  /\ prog = NoProg

SpecDrain == InitDrain /\ [][NextDrain]_vars

\* SpecMixed: the cycle of SpecDrain on a mesh with a refinement jump, the
\* cell-variable exchange and the flux exchange running in the same stage.
\* The cell-variable exchange is given the same-level windows on every slot.
InitMixed ==
  /\ \E ms \in Meshes \ UniformMeshes : InitOn(ms, 2, 0)
  /\ tag_in = NoTags
  /\ tag_out = NoTagOut
  /\ kern = NoKern
  /\ bufs = NoBufs
  /\ prog = NoProg

SpecMixed == InitMixed /\ [][NextDrain]_vars

\* SpecFail: the exchange cycle of SpecCycle on a transport with either
\* error handler, on which the calls of one kind may be in error and a
\* transfer in flight may fail (one failed transfer at a time); the failure
\* of a transfer is reported by the next test or wait on its handle.
MPI_Fail ==
  /\ ~aborted
  /\ \A r \in Ranks : \A p \in CrossRank(mesh, r) :
       /\ recv_comm_req[r][p[2]][p[1]].st # "failed"
       /\ send_flx_req[r][p[2]][p[1]].st # "failed"
  /\ \E r \in Ranks : \E p \in CrossRank(mesh, r) :
       \/ /\ recv_comm_req[r][p[2]][p[1]].st = "active"
          /\ recv_comm_req' = [recv_comm_req EXCEPT ![r][p[2]][p[1]].st = "failed"]
          /\ UNCHANGED send_flx_req
       \/ /\ send_flx_req[r][p[2]][p[1]].st = "active"
          /\ send_flx_req' = [send_flx_req EXCEPT ![r][p[2]][p[1]].st = "failed"]
          /\ UNCHANGED recv_comm_req
  /\ UNCHANGED << mesh, key, mpi, send_var_stat, send_flx_stat, recv_var_req, send_var_req,
                  tag_in, tag_out, kern, bufs, prog, var_stat, flx_stat, recv_flx_req,
                  send_comm_req, recv_data, send_data, flx, u, msgs, irecv_log,
                  isend_log, pc, ret, polls, aborted >>

InitFail ==
  /\ \E ms \in Meshes, tr \in Transports : InitWith(ms, 2, 0, tr)
  /\ tag_in = NoTags
  /\ tag_out = NoTagOut
  /\ kern = NoKern
  /\ bufs = NoBufs
  /\ prog = NoProg

NextFail == NextCycle \/ MPI_Fail

SpecFail == InitFail /\ [][NextFail]_vars

\* SpecStage: one stage of the driver in task order, the cell-variable sends
\* and the flux exchange in the same stage on a mesh whose blocks are all at
\* one level: InitRecv, PackAndSend of the cell variables, PackAndSendFluxCC,
\* the polling task re-invoked while it returns incomplete, ClearRecv,
\* ClearSend.
\* variant: the polling task of the stage is the one of the cell variables
StagePollCC(r) == RecvAndUnpackCC(r)
\* the polling task of the stage
StagePoll(r) == RecvAndUnpackFluxCC(r)

StageInitRecv(r) == pc[r] \in {"none", "ClearSend"} /\ InitRecv(r)
StagePackAndSend(r) == pc[r] = "InitRecv" /\ PackAndSendCC(r)
StagePackAndSendFlux(r) == pc[r] = "PackAndSendCC" /\ PackAndSendFluxCC(r)
StageRecvAndUnpack(r) ==
  /\ \/ pc[r] = "PackAndSendFluxCC"
     \/ pc[r] \in {"RecvAndUnpackFluxCC", "RecvAndUnpackCC"} /\ ret[r] = "incomplete"
  /\ StagePoll(r)
  /\ polls' = [polls EXCEPT ![r] = 1 - @]
StageClearRecv(r) ==
  /\ pc[r] \in {"RecvAndUnpackFluxCC", "RecvAndUnpackCC"} /\ ret[r] = "complete"
  /\ ClearRecv(r)
StageClearSend(r) == pc[r] = "ClearRecv" /\ ClearSend(r)

NextStage ==
  \/ \E r \in Ranks : StageInitRecv(r)
  \/ \E r \in Ranks : StagePackAndSend(r)
  \/ \E r \in Ranks : StagePackAndSendFlux(r)
  \/ \E r \in Ranks : StageRecvAndUnpack(r)
  \/ \E r \in Ranks : StageClearRecv(r)
  \/ \E r \in Ranks : StageClearSend(r)
  \/ MPI_Match
  \/ MPI_SendDone
  \/ MPI_FluxSendDone

SpecStage == InitDrain /\ [][NextStage]_vars

\* SpecTag: the tags computed for two (local block id, buffer index) pairs,
\* the pairs and the key drawn from bounded sets.
OneMesh == CHOOSE ms \in Meshes : ms.nranks = 2

InitTag ==
  /\ \E k \in 2 .. MaxKey : InitOn(OneMesh, k, 0)
  /\ tag_in \in [lid1 : 0 .. MaxLid, buf1 : 0 .. (max_slots - 1),
                 lid2 : 0 .. MaxLid, buf2 : 0 .. (max_slots - 1)]
  /\ tag_out = NoTagOut
  /\ kern = NoKern
  /\ bufs = NoBufs
  /\ prog = NoProg

ComputeTags ==
  /\ tag_out = NoTagOut
  /\ tag_out' = [recv1 |-> InitRecvTag(tag_in.lid1, tag_in.buf1),
                 recv2 |-> InitRecvTag(tag_in.lid2, tag_in.buf2),
                 flux1 |-> FluxTag(tag_in.lid1, tag_in.buf1, key),
                 flux2 |-> FluxTag(tag_in.lid2, tag_in.buf2, key)]
  /\ UNCHANGED << mesh, key, mpi, send_var_stat, send_flx_stat, recv_var_req, send_var_req,
                  var_stat, flx_stat, recv_comm_req, recv_flx_req,
                  send_comm_req, send_flx_req, recv_data, send_data, flx, u, msgs,
                  irecv_log, isend_log, pc, ret, polls, aborted, tag_in, kern, bufs, prog >>

NextTag == ComputeTags

SpecTag == InitTag /\ [][NextTag]_vars

\* --------------------------------------- flux kernels in one to three dimensions
\* One pass of the pack kernel of PackAndSendFluxCC and of the unpack kernel
\* of RecvAndUnpackFluxCC for one (block, slot, variable).  Fluxes and buffer
\* entries are held in quarters (four times the Real value), so that the
\* factors 0.5 and 0.25 of the kernel are exact.

\* first coarse index of the block along x2 and x3 (0 in a collapsed direction)
cjs(dim) == IF dim >= 2 THEN ng ELSE 0
cks(dim) == IF dim >= 3 THEN ng ELSE 0

one_d(dim) == dim = 1
two_d(dim) == dim = 2

\* ni, nj, nk of a window
Ni(w) == w.iu - w.il + 1
Nj(w) == w.ju - w.jl + 1
Nk(w) == w.ku - w.kl + 1

\* the (k, j, i) the loops of a kernel visit: idx runs over 0 .. nk*nj-1 and
\* is decoded into k and j, i runs over il .. iu
WinCells(w) ==
  { << (idx \div Nj(w)) + w.kl, (idx - (idx \div Nj(w)) * Nj(w)) + w.jl, i >> :
      idx \in 0 .. (Nk(w) * Nj(w) - 1), i \in w.il .. w.iu }

\* the fine face flux of the packing block, in Real units: either every face
\* its own value, or the values 1, 2 (, 3, 4) on the fine faces under each
\* coarse face of direction dir
FineFlux(pat, dim, dir, fk, fj, fi) ==
  IF pat = "index" THEN 1 + fi + 10 * fj + 100 * fk
  ELSE LET ti == (fi - cis) % 2
           tj == (fj - cjs(dim)) % 2
           tk == (fk - cks(dim)) % 2
       IN 1 + (IF dir = 1 THEN tj + 2 * tk ELSE IF dir = 2 THEN ti + 2 * tk ELSE ti + 2 * tj)

\* the branch the kernels take for slot n: n < 8 the x1 face, n < 16 the x2
\* face, any other n the x3 face
FaceDir(n) == IF n < 8 THEN 1 ELSE IF n < 16 THEN 2 ELSE 3

\* variant: the x1-face and x2-face stencils average along x1 and x2 only
rflxPlanar(kn, k, j, i) ==
  LET fj == 2 * j - cjs(kn.dim)
      fk == 2 * k - cks(kn.dim)
      fi == 2 * i - cis
      F(a, b, c) == FineFlux(kn.pat, kn.dim, FaceDir(kn.n), a, b, c)
  IN IF FaceDir(kn.n) = 1
     THEN IF one_d(kn.dim) THEN 4 * F(0, 0, fi)
          ELSE 2 * (F(fk, fj, fi) + F(fk, fj + 1, fi))
     ELSE IF FaceDir(kn.n) = 2
     THEN 2 * (F(fk, fj, fi) + F(fk, fj, fi + 1))
     ELSE F(fk, fj, fi) + F(fk, fj, fi + 1) + F(fk, fj + 1, fi) + F(fk, fj + 1, fi + 1)
\* rflx of coarse face (k, j, i), in quarters
rflx(kn, k, j, i) ==
  LET fj == 2 * j - cjs(kn.dim)
      fk == 2 * k - cks(kn.dim)
      fi == 2 * i - cis
      F(a, b, c) == FineFlux(kn.pat, kn.dim, FaceDir(kn.n), a, b, c)
  IN IF FaceDir(kn.n) = 1
     THEN IF one_d(kn.dim) THEN 4 * F(0, 0, fi)
          ELSE IF two_d(kn.dim) THEN 2 * (F(0, fj, fi) + F(0, fj + 1, fi))
          ELSE F(fk, fj, fi) + F(fk, fj + 1, fi) + F(fk + 1, fj, fi) + F(fk + 1, fj + 1, fi)
     ELSE IF FaceDir(kn.n) = 2
     THEN IF two_d(kn.dim) THEN 2 * (F(0, fj, fi) + F(0, fj, fi + 1))
          ELSE F(fk, fj, fi) + F(fk, fj, fi + 1) + F(fk + 1, fj, fi) + F(fk + 1, fj, fi + 1)
     ELSE F(fk, fj, fi) + F(fk, fj, fi + 1) + F(fk, fj + 1, fi) + F(fk, fj + 1, fi + 1)

\* buffer index the pack kernel writes face (k, j, i) of window w to
PackOffset(w, k, j, i) == (i - w.il) + Ni(w) * ((j - w.jl) + Nj(w) * (k - w.kl))

\* variant: i and j exchanged in the flattening
UnpackOffsetTransposed(w, k, j, i) == (j - w.jl) + Nj(w) * ((i - w.il) + Ni(w) * (k - w.kl))
\* buffer index the unpack kernel reads face (k, j, i) of window w from
UnpackOffset(w, k, j, i) == (i - w.il) + Ni(w) * ((j - w.jl) + Nj(w) * (k - w.kl))

\* the pack kernel runs: slot flagged, neighbour of the packing block coarser
KernPacks(kn) == kn.ccflx /\ kn.lev < 0

\* level of the neighbour relative to the unpacking block: the unpacking block
\* is the neighbour of the packing block
RecvLev(kn) == 0 - kn.lev

\* variant: the level test of the unpack kernel inverted
KernUnpacksCoarser(kn) == kn.ccflx /\ RecvLev(kn) < 0
\* the unpack kernel runs: slot flagged, neighbour of the unpacking block finer
KernUnpacks(kn) == kn.ccflx /\ RecvLev(kn) > 0

\* entries of a buffer
KBufLen == MaxWin * MaxWin * MaxWin

\* the buffer after the pack kernel
PackedBuf(kn) ==
  IF KernPacks(kn)
  THEN [o \in 0 .. (KBufLen - 1) |->
          IF \E c \in WinCells(kn.snd) : PackOffset(kn.snd, c[1], c[2], c[3]) = o
          THEN LET c == CHOOSE d \in WinCells(kn.snd) : PackOffset(kn.snd, d[1], d[2], d[3]) = o
               IN rflx(kn, c[1], c[2], c[3])
          ELSE kn.buf[o]]
  ELSE kn.buf

\* flx.x1f / x2f / x3f (m, v, k, j, i) on the faces of the receive window
\* after the unpack kernel
UnpackedOut(kn) ==
  IF KernUnpacks(kn)
  THEN [c \in WinCells(kn.rcv) |-> kn.buf[UnpackOffset(kn.rcv, c[1], c[2], c[3])]]
  ELSE kn.out

\* the flux on the faces of the receive window before the unpack
OldFlux == 0 - 1

\* windows along one direction: of one to MaxWin faces, from the first face
\* or from the face after the last cell; one face at 0 in a collapsed direction
AxisWins(active, cs, ce) ==
  IF active THEN { [l |-> l0, u |-> l0 + len - 1] : l0 \in {cs, ce + 1}, len \in 1 .. MaxWin }
  ELSE { [l |-> 0, u |-> 0] }

Windows(dim) ==
  { [il |-> a.l, iu |-> a.u, jl |-> b.l, ju |-> b.u, kl |-> c.l, ku |-> c.u] :
      a \in AxisWins(TRUE, cis, cie),
      b \in AxisWins(dim >= 2, cjs(dim), cjs(dim) + cnx1 - 1),
      c \in AxisWins(dim >= 3, cks(dim), cks(dim) + cnx1 - 1) }

\* a window of the size of w, moved by sh faces along every active direction
Shifted(w, dim, sh) ==
  [il |-> w.il + sh, iu |-> w.iu + sh,
   jl |-> w.jl + (IF dim >= 2 THEN sh ELSE 0), ju |-> w.ju + (IF dim >= 2 THEN sh ELSE 0),
   kl |-> w.kl + (IF dim >= 3 THEN sh ELSE 0), ku |-> w.ku + (IF dim >= 3 THEN sh ELSE 0)]

KernSlots(dim) == { n \in {0, 8, 24} : FaceDir(n) <= dim }

InitKernel ==
  /\ InitOn(OneMesh, 2, 0)
  /\ tag_in = NoTags
  /\ tag_out = NoTagOut
  /\ bufs = NoBufs
  /\ prog = NoProg
  /\ \E dim \in 1 .. 3 :
       \E n \in KernSlots(dim), w \in Windows(dim), sh \in {0, 1},
          pat \in {"index", "corner"}, cf \in BOOLEAN, lv \in {0 - 1, 0, 1} :
         kern = [stage |-> "in", dim |-> dim, n |-> n, ccflx |-> cf, lev |-> lv,
                 pat |-> pat, snd |-> w, rcv |-> Shifted(w, dim, sh),
                 buf |-> [o \in 0 .. (KBufLen - 1) |-> 0],
                 out |-> [c \in WinCells(Shifted(w, dim, sh)) |-> OldFlux]]

KernUnchanged ==
  UNCHANGED << mesh, key, mpi, send_var_stat, send_flx_stat, recv_var_req, send_var_req,
                  var_stat, flx_stat, recv_comm_req, recv_flx_req,
               send_comm_req, send_flx_req, recv_data, send_data, flx, u, msgs,
               irecv_log, isend_log, pc, ret, polls, aborted, tag_in, tag_out, bufs, prog >>

PackKernel ==
  /\ kern.stage = "in"
  /\ kern' = [kern EXCEPT !.stage = "packed", !.buf = PackedBuf(kern)]
  /\ KernUnchanged

UnpackKernel ==
  /\ kern.stage = "packed"
  /\ kern' = [kern EXCEPT !.stage = "unpacked", !.out = UnpackedOut(kern)]
  /\ KernUnchanged

NextKernel == PackKernel \/ UnpackKernel

SpecKernel == InitKernel /\ [][NextKernel]_vars

\* ------------------------------------------------ records without neighbour
\* the two-level meshes with open ends, the records of the face slots at the
\* physical boundaries (gid = -1) holding level l and flux flag f, and as
\* rank either -1 or, own set, the rank of the block (a record left over
\* from a neighbour the block had on its rank)
StaleMeshes ==
  LET Stale(l, f, rk) == [gid |-> -1, lev |-> l, rank |-> rk, dest |-> -1, ccflx |-> f]
      Open(ms) == \E r \in RanksOf(ms) : \E m \in LocalBlocks(ms, r) :
                    nghbr(ms, r, m, NeighborIndx(-1)).gid < 0
      With(ms, l, f, own) ==
        [ms EXCEPT !.nghbr =
           [r \in RanksOf(ms) |-> [m \in LocalBlocks(ms, r) |-> [n \in Slots |->
              IF n \in {NeighborIndx(-1), NeighborIndx(1)} /\ ms.nghbr[r][m][n].gid < 0
              THEN Stale(l, f, IF own THEN r ELSE -1) ELSE ms.nghbr[r][m][n]]]]]
  IN { With(ms, l, f, own) : ms \in { x \in Meshes \ UniformMeshes : Open(x) },
                             l \in -1 .. 1, f \in BOOLEAN, own \in BOOLEAN }

InitStale ==
  /\ \E ms \in StaleMeshes : InitOn(ms, 2, 0)
  /\ tag_in = NoTags
  /\ tag_out = NoTagOut
  /\ kern = NoKern
  /\ bufs = NoBufs
  /\ prog = NoProg

\* SpecStale: the exchange cycle on a mesh whose boundary records hold any
\* level and flag
SpecStale == InitStale /\ [][NextCycle]_vars

\* --------------------------------------------------------- InitializeBuffers
\* index of the buffer of the neighbour in direction (ix, iy, iz), sub-block
\* (n1, n2): x1 faces 0..7, x2 faces 8..15, x1x2 edges 16..23, x3 faces
\* 24..31, x3x1 edges 32..39, x2x3 edges 40..47, corners 48..55
NeighborIndx3D(ix, iy, iz, n1, n2) ==
  IF iy = 0 /\ iz = 0 THEN 2 * (ix + 1) + n1 + 2 * n2
  ELSE IF ix = 0 /\ iz = 0 THEN 8 + 2 * (iy + 1) + n1 + 2 * n2
  ELSE IF iz = 0 THEN 16 + (ix + 1) + 2 * (iy + 1) + n1
  ELSE IF ix = 0 /\ iy = 0 THEN 24 + 2 * (iz + 1) + n1 + 2 * n2
  ELSE IF iy = 0 THEN 32 + (ix + 1) + 2 * (iz + 1) + n1
  ELSE IF ix = 0 THEN 40 + (iy + 1) + 2 * (iz + 1) + n1
  ELSE 48 + ((ix + 1) \div 2) + (iy + 1) + 2 * (iz + 1)

AllSlots == 0 .. (max_slots - 1)

multi_d(dim) == dim >= 2
three_d(dim) == dim >= 3

\* variant: two sub-blocks along x2 on every multilevel mesh
nfyMultilevel(ml, dim) == IF ml THEN 2 ELSE 1
\* number of sub-blocks along x1, x2, x3
nfx(ml, dim) == IF ml THEN 2 ELSE 1
nfy(ml, dim) == IF ml /\ multi_d(dim) THEN 2 ELSE 1
nfz(ml, dim) == IF ml /\ three_d(dim) THEN 2 ELSE 1

\* a buffer InitializeBuffers has not touched
Unset == [set |-> FALSE, indcs |-> [fn |-> "none", args |-> << >>],
          data |-> [nmb |-> 0, nvar |-> 0]]

\* InitSendIndices(buf, ...) / InitRecvIndices(buf, ...): the call sets the
\* windows of buf for direction and sub-block args; what they are is a
\* function of the mesh geometry and of args
InitSendIndices(buf, args) ==
  [buf EXCEPT !.set = TRUE, !.indcs = [fn |-> "InitSendIndices", args |-> args]]
InitRecvIndices(buf, args) ==
  [buf EXCEPT !.set = TRUE, !.indcs = [fn |-> "InitRecvIndices", args |-> args]]

\* buf.AllocateDataView(nmb, nvar): the data store of buf gets the shape
\* (nmb, nvar)
AllocateDataView(buf, nmb_, nvar) ==
  [buf EXCEPT !.set = TRUE, !.data = [nmb |-> nmb_, nvar |-> nvar]]

\* one pass of the body of a loop nest: the buffer index and the arguments
\* of the calls on send_buf[indx] and recv_buf[indx]
Body(indx, sargs, rargs) == [indx |-> indx, sargs |-> sargs, rargs |-> rargs]

\* value of a loop variable that runs over -1, 1
Dir(t) == 2 * t - 1

\* the passes of a loop nest "for a in -1,1; for b < nb; for c < nc", in order
Nest3(nb, nc, F(_, _, _)) ==
  [t \in 1 .. (2 * nb * nc) |->
     F(Dir((t - 1) \div (nb * nc)), ((t - 1) \div nc) % nb, (t - 1) % nc)]

\* the passes of a loop nest "for a in -1,1; for b in -1,1; for c < nc"
Nest2Dir(nc, F(_, _, _)) ==
  [t \in 1 .. (4 * nc) |->
     F(Dir((t - 1) \div (2 * nc)), Dir(((t - 1) \div nc) % 2), (t - 1) % nc)]

X1Faces(ml, dim) ==
  LET F(n, fz, fy) == Body(NeighborIndx3D(n, 0, 0, fy, fz),
                           << n, 0, 0, fy, fz >>, << n, 0, 0, fy, fz >>)
  IN Nest3(nfz(ml, dim), nfy(ml, dim), F)

X2Faces(ml, dim) ==
  LET F(m, fz, fx) == Body(NeighborIndx3D(0, m, 0, fx, fz),
                           << 0, m, 0, fx, fz >>, << 0, m, 0, fx, fz >>)
  IN Nest3(nfz(ml, dim), nfx(ml, dim), F)

X1X2Edges(ml, dim) ==
  LET F(m, n, fz) == Body(NeighborIndx3D(n, m, 0, fz, 0),
                          << n, m, 0, fz, 0 >>, << n, m, 0, fz, 0 >>)
  IN Nest2Dir(nfz(ml, dim), F)

X3Faces(ml, dim) ==
  LET F(l, fy, fx) == Body(NeighborIndx3D(0, 0, l, fx, fy),
                           << 0, 0, l, fx, fy >>, << 0, 0, l, fx, fy >>)
  IN Nest3(nfy(ml, dim), nfx(ml, dim), F)

X3X1Edges(ml, dim) ==
  LET F(l, n, fy) == Body(NeighborIndx3D(n, 0, l, fy, 0),
                          << n, 0, l, fy, 0 >>, << n, 0, l, fy, 0 >>)
  IN Nest2Dir(nfy(ml, dim), F)

X2X3Edges(ml, dim) ==
  LET F(l, m, fx) == Body(NeighborIndx3D(0, m, l, fx, 0),
                          << 0, m, l, fx, 0 >>, << 0, m, l, fx, 0 >>)
  IN Nest2Dir(nfx(ml, dim), F)

\* variant: the receive windows of the corners set for the mirrored direction
CornersMirrored(ml, dim) ==
  [t \in 1 .. 8 |->
     LET l == Dir((t - 1) \div 4)
         m == Dir(((t - 1) \div 2) % 2)
         n == Dir((t - 1) % 2)
     IN Body(NeighborIndx3D(n, m, l, 0, 0), << n, m, l, 0, 0 >>, << 0 - n, 0 - m, 0 - l, 0, 0 >>)]
Corners(ml, dim) ==
  [t \in 1 .. 8 |->
     LET l == Dir((t - 1) \div 4)
         m == Dir(((t - 1) \div 2) % 2)
         n == Dir((t - 1) % 2)
     IN Body(NeighborIndx3D(n, m, l, 0, 0), << n, m, l, 0, 0 >>, << n, m, l, 0, 0 >>)]

\* every pass of InitializeBuffers on a mesh of dimension dim, in order
BufferPasses(ml, dim) ==
  X1Faces(ml, dim)
    \o (IF multi_d(dim) THEN X2Faces(ml, dim) \o X1X2Edges(ml, dim) ELSE << >>)
    \o (IF three_d(dim)
        THEN X3Faces(ml, dim) \o X3X1Edges(ml, dim) \o X2X3Edges(ml, dim) \o Corners(ml, dim)
        ELSE << >>)

\* the calls of the body of pass b on send_buf and on recv_buf
SendPass(send, b, nmb_, nvar) ==
  [send EXCEPT ![b.indx] = AllocateDataView(InitSendIndices(@, b.sargs), nmb_, nvar)]
RecvPass(recv, b, nmb_, nvar) ==
  [recv EXCEPT ![b.indx] = AllocateDataView(InitRecvIndices(@, b.rargs), nmb_, nvar)]

\* the buffers after the first t passes, run one after the other
RECURSIVE RunSendPasses(_, _, _, _, _)
RunSendPasses(send, passes, t, nmb_, nvar) ==
  IF t = 0 THEN send
  ELSE SendPass(RunSendPasses(send, passes, t - 1, nmb_, nvar), passes[t], nmb_, nvar)

RECURSIVE RunRecvPasses(_, _, _, _, _)
RunRecvPasses(recv, passes, t, nmb_, nvar) ==
  IF t = 0 THEN recv
  ELSE RecvPass(RunRecvPasses(recv, passes, t - 1, nmb_, nvar), passes[t], nmb_, nvar)

\* send_buf and recv_buf after InitializeBuffers(nvar) on the buffers old
InitializedSend(old, ml, dim, nmb_, nvar) ==
  RunSendPasses(old, BufferPasses(ml, dim), Len(BufferPasses(ml, dim)), nmb_, nvar)
InitializedRecv(old, ml, dim, nmb_, nvar) ==
  RunRecvPasses(old, BufferPasses(ml, dim), Len(BufferPasses(ml, dim)), nmb_, nvar)

\* pmb->nnghbr: the number of neighbour slots of a block, the range the
\* constructor creates status flags and handles for
nnghbrOf(dim) == IF dim = 1 THEN 8 ELSE IF dim = 2 THEN 24 ELSE max_slots

\* the indices n at which the closing loop reads send_buf[n] and recv_buf[n]
DebugReads(dim) == 0 .. nnghbrOf(dim)

InitBuffers ==
  /\ InitOn(OneMesh, 2, 0)
  /\ tag_in = NoTags
  /\ tag_out = NoTagOut
  /\ kern = NoKern
  /\ prog = NoProg
  /\ \E dim \in 1 .. 3, ml \in BOOLEAN, nm \in 1 .. MaxNmb :
       bufs = [hist |-> << >>, dim |-> dim, multilevel |-> ml, nmb |-> nm,
               send |-> [s \in AllSlots |-> Unset], recv |-> [s \in AllSlots |-> Unset],
               read |-> {}]

InitializeBuffers(nvar) ==
  /\ Len(bufs.hist) < MaxCalls
  /\ bufs' = [bufs EXCEPT
                !.hist = Append(@, nvar),
                !.send = InitializedSend(@, bufs.multilevel, bufs.dim, bufs.nmb, nvar),
                !.recv = InitializedRecv(@, bufs.multilevel, bufs.dim, bufs.nmb, nvar),
                !.read = DebugReads(bufs.dim)]
  /\ UNCHANGED << mesh, key, mpi, send_var_stat, send_flx_stat, recv_var_req, send_var_req,
                  var_stat, flx_stat, recv_comm_req, recv_flx_req,
                  send_comm_req, send_flx_req, recv_data, send_data, flx, u, msgs,
                  irecv_log, isend_log, pc, ret, polls, aborted, tag_in, tag_out, kern, prog >>

NextBuffers == \E nvar \in 1 .. MaxNvar : InitializeBuffers(nvar)

SpecBuffers == InitBuffers /\ [][NextBuffers]_vars

\* --------------------------------------------------------------------- main
\* the elements of the command line after argv[0]: the options of main, an
\* option letter main does not know, a word that starts with '-' without
\* being of the two-character form "-?", the empty word, and a plain word
Options == {"-i", "-r", "-d", "-t", "-n", "-m", "-c", "-h", "-x"}
Words == Options \cup {"-abc", "", "word"}

\* argv[i] is a two-character string of the form "-?":
\* *argv[i] == '-' && *(argv[i]+1) != '\0' && *(argv[i]+2) == '\0'
IsOption(w) == w \in Options
\* *argv[i+1] == '-': the first character alone
StartsWithDash(w) == w \in Options \cup {"-abc"}
\* the first switch: every letter but c, h, m, n must be followed by an argument
NeedsArgument(w) == w \notin {"-c", "-h", "-m", "-n"}

\* the test of the first switch at position i: the flag is at the end of the
\* command line or is followed by another flag
ArgumentMissing(argv, i) == i + 1 > Len(argv) \/ StartsWithDash(argv[i + 1])

\* MPI_Finalize followed by return(0)
FinalizeAndReturn(p, path) ==
  [p EXCEPT !.pc = "returned", !.finalized = @ + 1, !.path = path]
\* return(0) with no call of MPI_Finalize
ReturnOnly(p, path) == [p EXCEPT !.pc = "returned", !.path = path]

MainUnchanged ==
  UNCHANGED << mesh, key, mpi, send_var_stat, send_flx_stat, recv_var_req, send_var_req,
                  var_stat, flx_stat, recv_comm_req, recv_flx_req,
               send_comm_req, send_flx_req, recv_data, send_data, flx, u, msgs,
               irecv_log, isend_log, pc, ret, polls, aborted, tag_in, tag_out, kern, bufs >>

InitMain ==
  /\ InitOn(OneMesh, 2, 0)
  /\ tag_in = NoTags
  /\ tag_out = NoTagOut
  /\ kern = NoKern
  /\ bufs = NoBufs
  /\ \E n \in 0 .. MaxArgs : \E argv \in [1 .. n -> Words] :
       prog = [pc |-> "start", argv |-> argv, my_rank |-> 0, i |-> 1,
               initialized |-> FALSE, finalized |-> 0, path |-> "none",
               input_file |-> "", restart_file |-> "", narg_flag |-> 0, marg_flag |-> 0,
               missing |-> "", taken |-> << >>, mesh_built |-> FALSE, pgen |-> ""]

\* Step 1: MPI_Init, MPI_Comm_rank, MPI_Comm_size; each may fail
InitializeEnvironment ==
  /\ prog.pc = "start"
  /\ \E out \in {"init failed", "rank failed", "size failed", "ok"}, rank \in {0, 1} :
       prog' = IF out = "init failed" THEN ReturnOnly(prog, "init failed")
               ELSE IF out = "rank failed"
                 THEN FinalizeAndReturn([prog EXCEPT !.initialized = TRUE], "rank failed")
               ELSE IF out = "size failed"
                 THEN FinalizeAndReturn([prog EXCEPT !.initialized = TRUE, !.my_rank = rank],
                                        "size failed")
               ELSE [prog EXCEPT !.initialized = TRUE, !.my_rank = rank, !.pc = "options"]
  /\ MainUnchanged

\* what reading argv[++i] as the argument of option w gives: the element, or,
\* past the end of the command line (argv[argc] is a null pointer), a crash
\* or some junk string
ArgumentRead(argv, i) ==
  IF i + 1 <= Len(argv) THEN {argv[i + 1]} ELSE {"crash", "junk"}

\* the second switch for an option that takes an argument
TakeArgument(p, w, val) ==
  IF val = "crash" THEN [p EXCEPT !.pc = "crashed", !.taken = Append(@, << w, p.i + 1, val >>)]
  ELSE [p EXCEPT !.i = p.i + 2,
                 !.taken = Append(@, << w, p.i + 1, val >>),
                 !.input_file = IF w = "-i" THEN val ELSE @,
                 !.restart_file = IF w = "-r" THEN val ELSE @]

\* Step 2: one pass of the loop over the command line
CheckOption ==
  /\ prog.pc = "options"
  /\ prog.i <= Len(prog.argv)
  /\ LET w == prog.argv[prog.i]
         miss == IsOption(w) /\ NeedsArgument(w) /\ ArgumentMissing(prog.argv, prog.i)
         p == [prog EXCEPT !.missing = IF miss THEN w ELSE @]
     IN \E val \in ArgumentRead(prog.argv, prog.i) :
          prog' = IF ~IsOption(w) THEN [p EXCEPT !.i = @ + 1]
                  ELSE IF miss /\ prog.my_rank = 0
                    THEN FinalizeAndReturn(p, "missing argument")
                  ELSE IF w \in {"-i", "-r", "-d", "-t"} THEN TakeArgument(p, w, val)
                  ELSE IF w = "-n" THEN [p EXCEPT !.narg_flag = 1, !.i = @ + 1]
                  ELSE IF w = "-m" THEN [p EXCEPT !.marg_flag = 1, !.i = @ + 1]
                  ELSE IF w = "-c" THEN FinalizeAndReturn(p, "show-config")
                  ELSE FinalizeAndReturn(p, "help")
  /\ MainUnchanged

\* after the loop: an input or a restart file must have been given
CheckFiles ==
  /\ prog.pc = "options"
  /\ prog.i > Len(prog.argv)
  /\ prog' = IF prog.restart_file = "" /\ prog.input_file = ""
             THEN FinalizeAndReturn(prog, "missing input file")
             ELSE [prog EXCEPT !.pc = "parameters"]
  /\ MainUnchanged

\* Step 3: the parameters are read; with -n they are dumped and main returns.
\* The call of MPI_Finalize stands under #ifdef MPI_PARALLEL, a macro the
\* build does not define
ParameterDump ==
  /\ prog.pc = "parameters"
  /\ prog' = IF prog.narg_flag = 1 THEN ReturnOnly(prog, "parameter dump")
             ELSE [prog EXCEPT !.pc = "mesh"]
  /\ MainUnchanged

\* Step 4: the mesh is built; with -m its structure is written and main
\* returns, MPI_Finalize again under #ifdef MPI_PARALLEL
OutputMeshStructure ==
  /\ prog.pc = "mesh"
  /\ prog' = IF prog.marg_flag = 1
             THEN ReturnOnly([prog EXCEPT !.mesh_built = TRUE], "mesh structure")
             ELSE [prog EXCEPT !.mesh_built = TRUE, !.pc = "driver"]
  /\ MainUnchanged

\* the values of pgen_name in the <problem> block of the input file: the
\* three names the constructor knows, a name it does not know, and "none",
\* the default when the block gives no name
PgenNames == {"shock_tube", "advection", "implode", "custom", "none"}

\* the constructor of ProblemGenerator (Step 6): a name that is none of the
\* three ends the process with std::exit(EXIT_FAILURE); main does not
\* return and MPI_Finalize is not called
ProblemGenerator(p, name) ==
  IF name \in {"shock_tube", "advection", "implode"}
  THEN [p EXCEPT !.pgen = name]
  ELSE [p EXCEPT !.pgen = name, !.pc = "exited", !.path = "pgen exit"]

\* Steps 5 to 9: the problem generator, the run, then MPI_Finalize and return
Execute ==
  /\ prog.pc = "driver"
  /\ \E name \in PgenNames :
       LET p == ProblemGenerator(prog, name)
       IN prog' = IF p.pc = "exited" THEN p ELSE FinalizeAndReturn(p, "normal completion")
  /\ MainUnchanged

NextMain ==
  \/ InitializeEnvironment
  \/ CheckOption
  \/ CheckFiles
  \/ ParameterDump
  \/ OutputMeshStructure
  \/ Execute

SpecMain == InitMain /\ [][NextMain]_vars

\* ------------------------------------------------------------------ claims
\* the ghost window of slot n of block m holds the cells the neighbour block
\* has next to the shared face
GhostHoldsNeighbour(r, m, n) ==
  LET nb == nghbr(mesh, r, m, n)
      mm == nb.gid - gidslist(mesh, r)
  IN \A j \in 0 .. (ng - 1) :
       u[r][m][SameRecvIndcs(n).bis + j] = u[r][mm][SameSendIndcs(nb.dest).bis + j]

\* C1: after one cycle InitRecv, PackAndSend, RecvAndUnpack (until complete),
\* ClearRecv, every slot fed by a same-level neighbour on the same rank has
\* status received and its ghost cells hold exactly the neighbour's interior
\* cells next to the shared face.
C1_SameRankCycleDelivers ==
  \A r \in Ranks :
    pc[r] = "ClearRecv" =>
      \A p \in SameRank(mesh, r) :
        /\ var_stat[r][p[2]][p[1]] = "received"
        /\ GhostHoldsNeighbour(r, p[1], p[2])

C1_Witness ==
  \E r \in Ranks :
    /\ pc[r] = "ClearRecv"
    /\ \E p \in SameRank(mesh, r) :
         /\ var_stat[r][p[2]][p[1]] = "received"
         /\ GhostHoldsNeighbour(r, p[1], p[2])
         /\ u[r][p[1]][SameRecvIndcs(p[2]).bis] =
              CellPattern(0, nghbr(mesh, r, p[1], p[2]).gid,
                          SameSendIndcs(nghbr(mesh, r, p[1], p[2]).dest).bis)

\* the call of rank r did not complete and left every flux entry alone
FluxCallIncomplete(r) ==
  /\ flx' = flx
  /\ \/ aborted'
     \/ pc'[r] = "RecvAndUnpackFluxCC" /\ ret'[r] = "incomplete"

\* C2 (as stated): a call of RecvAndUnpackFluxCC made while some pair with a
\* valid neighbour has status waiting returns incomplete and leaves every
\* flux entry unchanged.
C2_AnyWaitingBlocks ==
  [][\A r \in Ranks :
       (RecvAndUnpackFluxCC(r) /\ \E p \in Valid(mesh, r) : flx_stat[r][p[2]][p[1]] = "waiting")
         => FluxCallIncomplete(r)]_vars

\* C2: a call of RecvAndUnpackFluxCC made while some pair whose neighbour is
\* on the same rank has status waiting does not complete and leaves every flux
\* entry unchanged; a waiting pair whose neighbour is on another rank does not
\* by itself hold the call back: its handle is polled, and the pair is marked
\* received as soon as the poll reports completion.
C2_SameRankWaitingBlocks ==
  [][\A r \in Ranks :
       (RecvAndUnpackFluxCC(r) /\ \E p \in SameRank(mesh, r) : flx_stat[r][p[2]][p[1]] = "waiting")
         => FluxCallIncomplete(r)]_vars

C2_Witness ==
  \E r \in Ranks :
    /\ pc[r] = "RecvAndUnpackFluxCC"
    /\ ret[r] = "incomplete"
    /\ \E p \in SameRank(mesh, r) : flx_stat[r][p[2]][p[1]] = "waiting"

\* C3 (as stated): RecvAndUnpackFluxCC has returned complete only in a state
\* where every pair with a valid neighbour has status received, whatever calls
\* came before.
C3_CompleteOnlyWhenReceived ==
  \A r \in Ranks :
    (pc[r] = "RecvAndUnpackFluxCC" /\ ret[r] = "complete") =>
      \A p \in Valid(mesh, r) : flx_stat[r][p[2]][p[1]] = "received"

\* C4 (as stated): when every rank runs the cycle in order and the transport
\* makes progress, RecvAndUnpackFluxCC eventually returns complete on every
\* rank (a run ended by the transport's error handler is not held against it).
C4_PollingTerminates ==
  <>(\/ aborted
     \/ \A r \in Ranks :
          \/ pc[r] = "RecvAndUnpackFluxCC" /\ ret[r] = "complete"
          \/ pc[r] \in {"ClearRecv", "ClearSend"})

\* the receive buffer handle a message in flight is meant for
HandleOf(i) == recv_comm_req[msgs[i].dst][msgs[i].bufid][msgs[i].lid]

\* C5 (as stated): whenever a message is in flight, the receiving rank has
\* already posted the receive of the pair the message is meant for.
C5_PostedBeforePeerSends ==
  \A i \in 1 .. Len(msgs) : HandleOf(i).st # "absent"

\* C5: a rank that has issued sends has posted all of its own receives before
\* (InitRecv precedes the pack-and-send in its task sequence); the order
\* between a rank's send and the peer's posting is not enforced.
C5_OwnPostsBeforeOwnSends ==
  \A r \in Ranks :
    (\E i \in 1 .. Len(msgs) : msgs[i].src = r) =>
      \A p \in CrossRank(mesh, r) : recv_comm_req[r][p[2]][p[1]].st # "absent"

C5_Witness ==
  \E i \in 1 .. Len(msgs) :
    /\ HandleOf(i).st = "absent"
    /\ pc[msgs[i].dst] = "none"
    /\ \A p \in CrossRank(mesh, msgs[i].src) :
         recv_comm_req[msgs[i].src][p[2]][p[1]].st = "active"

\* C6: when PackAndSendFluxCC has returned, the destination status of every
\* pair whose neighbour is on the same rank is received, and no slot fed by a
\* same-rank neighbour is left at waiting.
C6_SameRankMarkedReceived ==
  \A r \in Ranks :
    pc[r] = "PackAndSendFluxCC" =>
      \A p \in SameRank(mesh, r) :
        LET nb == nghbr(mesh, r, p[1], p[2])
        IN /\ flx_stat[r][nb.dest][nb.gid - gidslist(mesh, r)] = "received"
           /\ flx_stat[r][p[2]][p[1]] # "waiting"

C6_Witness ==
  \E r \in Ranks :
    /\ pc[r] = "PackAndSendFluxCC"
    /\ \E p \in SameRank(mesh, r) :
         /\ var_stat[r][p[2]][p[1]] = "waiting"
         /\ flx_stat[r][p[2]][p[1]] = "received"

\* C7 (as stated): a call of InitRecv sets both status flags of every pair
\* with a neighbour (gid >= 0) to waiting, on the same rank or another, and
\* leaves the flags of every pair without a neighbour as they were.  On a rank
\* with a neighbour on another rank the call indexes the empty comm_req and
\* may end the run before the flags are set.
C7_InitRecvSetsWaiting ==
  [][\A r \in Ranks :
       InitRecv(r) =>
         \A m \in LocalBlocks(mesh, r) : \A n \in Slots :
           IF nghbr(mesh, r, m, n).gid >= 0
           THEN /\ var_stat'[r][n][m] = "waiting"
                /\ flx_stat'[r][n][m] = "waiting"
           ELSE /\ var_stat'[r][n][m] = var_stat[r][n][m]
                /\ flx_stat'[r][n][m] = flx_stat[r][n][m]]_vars

\* the receives the latest InitRecv of rank r posted for the pair (m, n)
PostedFor(r, m, n) ==
  { i \in 1 .. Len(irecv_log[r]) : irecv_log[r][i].m = m /\ irecv_log[r][i].n = n }

\* C8 (as stated): one call of InitRecv posts exactly one receive for each
\* pair whose neighbour is on another rank, addressed to that rank, and none
\* for a pair whose neighbour is on the same rank or absent.  The handle of
\* each such receive is comm_req[m] of an empty vector: the call may end the
\* run at the first of them with no receive posted.
C8_OneReceivePerCrossRankPair ==
  [][\A r \in Ranks :
       InitRecv(r) =>
         \A m \in LocalBlocks(mesh, r) : \A n \in Slots :
           IF <<m, n>> \in CrossRank(mesh, r)
           THEN /\ Cardinality(PostedFor(r, m, n)') = 1
                /\ \A i \in PostedFor(r, m, n)' :
                     /\ irecv_log'[r][i].req.peer = nghbr(mesh, r, m, n).rank
                     /\ irecv_log'[r][i].req.st = "active"
           ELSE PostedFor(r, m, n)' = {}]_vars

\* C9 (as stated): the tag of every message in flight equals the tag of the
\* receive the receiving rank posted for the pair the message is meant for.
C9_SendTagEqualsPostedTag ==
  \A i \in 1 .. Len(msgs) :
    HandleOf(i).st = "active" => msgs[i].tag = HandleOf(i).tag

\* C10: within one exchange kind two distinct (local block id, buffer index)
\* pairs with buffer index below max_slots never get the same tag.
C10_TagInjective ==
  (tag_out # NoTagOut /\ << tag_in.lid1, tag_in.buf1 >> # << tag_in.lid2, tag_in.buf2 >>) =>
    /\ tag_out.recv1 # tag_out.recv2
    /\ tag_out.flux1 # tag_out.flux2

C10_Witness ==
  /\ tag_out # NoTagOut
  /\ tag_in.lid2 = tag_in.lid1 + 1
  /\ tag_in.buf1 = max_slots - 1
  /\ tag_in.buf2 = 0
  /\ tag_out.recv2 = tag_out.recv1 + 1

\* C11 (as stated): a flux message and a cell-variable message never carry
\* the same tag, whatever the destination local block ids and buffer indices.
C11_ExchangeTagsDiffer ==
  tag_out # NoTagOut =>
    /\ tag_out.flux1 # tag_out.recv1
    /\ tag_out.flux1 # tag_out.recv2
    /\ tag_out.flux2 # tag_out.recv1
    /\ tag_out.flux2 # tag_out.recv2

\* the call of ClearRecv / ClearSend of rank r returned
ClearRecvReturned(r) == ClearRecv(r) /\ pc'[r] = "ClearRecv"
ClearSendReturned(r) == ClearSend(r) /\ pc'[r] = "ClearSend"

\* C12 (as stated): every status that was waiting for a neighbour on another
\* rank when ClearRecv was called is received when ClearRecv has returned.
C12_ClearRecvMakesReceived ==
  [][\A r \in Ranks :
       ClearRecvReturned(r) =>
         \A p \in CrossRank(mesh, r) :
           /\ var_stat[r][p[2]][p[1]] = "waiting" => var_stat'[r][p[2]][p[1]] = "received"
           /\ flx_stat[r][p[2]][p[1]] = "waiting" => flx_stat'[r][p[2]][p[1]] = "received"]_vars

\* C12: ClearRecv changes no status; when it has returned, no receive posted
\* for a pair whose neighbour is on another rank is still pending.
C12_ClearRecvOnlyWaits ==
  [][\A r \in Ranks :
       ClearRecvReturned(r) =>
         /\ var_stat' = var_stat
         /\ flx_stat' = flx_stat
         /\ \A p \in CrossRank(mesh, r) : recv_comm_req'[r][p[2]][p[1]].st # "active"]_vars

C12_Witness ==
  \E r \in Ranks :
    /\ pc[r] = "ClearRecv"
    /\ \E p \in CrossRank(mesh, r) :
         /\ var_stat[r][p[2]][p[1]] = "waiting"
         /\ recv_comm_req[r][p[2]][p[1]].st = "null"

\* C13 (as stated): when ClearSend has returned, no send of the cycle to
\* another rank is still outstanding, the sends of the flux exchange included.
C13_NoSendOutstanding ==
  \A r \in Ranks :
    pc[r] = "ClearSend" =>
      \A p \in CrossRank(mesh, r) :
        /\ send_comm_req[r][p[2]][p[1]].st # "active"
        /\ send_flx_req[r][p[2]][p[1]].st # "active"

\* C14: ClearRecv and ClearSend never wait on a handle that the polling of
\* RecvAndUnpackFluxCC has already found completed: the polling tests and
\* completes recv_buf[n].flx_req[m], the clears wait on comm_req[m] of the
\* receive and of the send buffers, and every handle they wait on holds a
\* transfer of the stage that no test or wait has completed yet.
C14_NoWaitAfterPoll ==
  [][\A r \in Ranks :
       /\ StageRecvAndUnpack(r) =>
            /\ recv_comm_req'[r] = recv_comm_req[r]
            /\ send_comm_req'[r] = send_comm_req[r]
       /\ StageClearRecv(r) =>
            \A p \in ClearRecvWaits(r) : recv_comm_req[r][p[2]][p[1]].st # "null"
       /\ StageClearSend(r) =>
            \A p \in ClearSendWaits(r) : send_comm_req[r][p[2]][p[1]].st # "null"]_vars

\* a rank whose polling found the flux handle of a cross-rank pair completed
\* and whose ClearRecv then waited on the comm_req handle of the pair
C14_Witness ==
  \E r \in Ranks :
    /\ pc[r] = "ClearRecv" /\ ret[r] = "complete"
    /\ \E p \in CrossRank(mesh, r) :
         /\ recv_flx_req[r][p[2]][p[1]].st = "null"
         /\ flx_stat[r][p[2]][p[1]] = "received"
         /\ recv_comm_req[r][p[2]][p[1]].st = "null"
         /\ send_comm_req[r][p[2]][p[1]].st \in {"active", "done"}

\* C15 (as stated): ClearRecv and ClearSend always return complete, and of
\* the handles only those of pairs whose neighbour is on another rank are
\* waited on: the handles of the other pairs are left as they were.  Each
\* wait indexes the empty comm_req and may end the run instead of returning.
C15_ClearsWaitCrossRankOnly ==
  [][\A r \in Ranks :
       /\ ClearRecv(r) =>
            /\ pc'[r] = "ClearRecv" /\ ret'[r] = "complete" /\ ~aborted'
            /\ \A p \in (LocalBlocks(mesh, r) \X Slots) \ CrossRank(mesh, r) :
                 recv_comm_req'[r][p[2]][p[1]] = recv_comm_req[r][p[2]][p[1]]
            /\ \A p \in CrossRank(mesh, r) : recv_comm_req'[r][p[2]][p[1]].st = "null"
       /\ ClearSend(r) =>
            /\ pc'[r] = "ClearSend" /\ ret'[r] = "complete" /\ ~aborted'
            /\ \A p \in (LocalBlocks(mesh, r) \X Slots) \ CrossRank(mesh, r) :
                 send_comm_req'[r][p[2]][p[1]] = send_comm_req[r][p[2]][p[1]]
            /\ \A p \in CrossRank(mesh, r) : send_comm_req'[r][p[2]][p[1]].st = "null"]_vars

\* the (block, slot) pairs that take no part in the flux exchange: the slot is
\* not flagged ccflx or the neighbour is at the level of the block
FluxIdle(r) ==
  { p \in Valid(mesh, r) :
      \/ ~nghbr(mesh, r, p[1], p[2]).ccflx
      \/ nghbr(mesh, r, p[1], p[2]).lev = mb_lev(mesh, r, p[1]) }

\* C16 (as stated): for a slot that is not flagged or whose neighbour is at
\* the same level, PackAndSendFluxCC writes no buffer data and sends no
\* message, and RecvAndUnpackFluxCC overwrites no face flux.
C16_OnlyLevelJumpParticipates ==
  \A r \in Ranks : \A p \in FluxIdle(r) :
    /\ send_data[r][p[2]][p[1]] = ZeroBuf
    /\ send_flx_req[r][p[2]][p[1]].st = "uninit"
    /\ \A x \in 1 .. Len(isend_log[r]) :
         ~(isend_log[r][x].lid = DestBlock(r, p[1], p[2])
           /\ isend_log[r][x].bufid = DestSlot(r, p[1], p[2])
           /\ isend_log[r][x].dst = nghbr(mesh, r, p[1], p[2]).rank)
    /\ \A i \in FluxRecvIndcs(p[2]).bis .. FluxRecvIndcs(p[2]).bie :
         flx[r][p[1]][i] = FluxPattern(0, mb_gid(mesh, r, p[1]), i)

\* number of faces of the receive window that hold the value of buffer entry o
FacesHolding(o) ==
  Cardinality({ c \in WinCells(kern.rcv) : kern.out[c] = kern.buf[o] })

\* number of fine faces under one coarse face
SubFaces(dim) == IF dim = 1 THEN 1 ELSE IF dim = 2 THEN 2 ELSE 4

\* C17 (as stated): at a refinement jump the unpack overwrites the face flux
\* of the finer block (the block whose neighbour is coarser), and every
\* coarse buffer value is held by exactly 1 (1-D), 2 (2-D) or 4 (3-D)
\* destination faces.
C17_CoarseValueBroadcast ==
  (kern.stage = "unpacked" /\ kern.ccflx /\ kern.pat = "index") =>
    /\ RecvLev(kern) < 0 => \A c \in WinCells(kern.rcv) : kern.out[c] # OldFlux
    /\ RecvLev(kern) > 0 =>
         \A o \in 0 .. (Ni(kern.rcv) * Nj(kern.rcv) * Nk(kern.rcv) - 1) :
           FacesHolding(o) = SubFaces(kern.dim)

\* C17 (amended): the unpack overwrites face fluxes only on the block whose
\* neighbour is finer (the coarse side of the jump); there every face
\* (k, j, i) of the receive window takes the buffer entry at
\* (i-il) + ni*((j-jl) + nj*(k-kl)), so every buffer value goes to exactly
\* one face in one, two and three dimensions; on the finer block, at equal
\* levels and for a slot that is not flagged no face flux is changed.
C17_OneFacePerValue ==
  kern.stage = "unpacked" =>
    IF kern.ccflx /\ RecvLev(kern) > 0
    THEN /\ \A c \in WinCells(kern.rcv) :
              kern.out[c] = kern.buf[(c[3] - kern.rcv.il)
                                      + Ni(kern.rcv) * ((c[2] - kern.rcv.jl)
                                      + Nj(kern.rcv) * (c[1] - kern.rcv.kl))]
         /\ kern.pat = "index" =>
              \A o \in 0 .. (Ni(kern.rcv) * Nj(kern.rcv) * Nk(kern.rcv) - 1) :
                FacesHolding(o) = 1
    ELSE \A c \in WinCells(kern.rcv) : kern.out[c] = OldFlux

C17_Witness ==
  /\ kern.stage = "unpacked"
  /\ kern.ccflx /\ RecvLev(kern) > 0
  /\ kern.dim = 3 /\ kern.pat = "index"
  /\ Ni(kern.rcv) > 1 /\ Nj(kern.rcv) > 1 /\ Nk(kern.rcv) > 1
  /\ \A c \in WinCells(kern.rcv) : kern.out[c] # OldFlux

\* C18 (as stated): PackAndSendFluxCC packs only on a block whose neighbour
\* in the slot is coarser, RecvAndUnpackFluxCC writes face fluxes only on a
\* block whose neighbour in the slot is finer, and when it has returned
\* complete each such face flux equals the average the finer sender packed
\* for that coarse face (in one dimension: the sender's flux on its fine face
\* 2*i - cis); every other face flux is as it was.
C18_CoarseSideTakesFineAverage ==
  \A r \in Ranks :
    /\ \A p \in LocalBlocks(mesh, r) \X Slots :
         nghbr(mesh, r, p[1], p[2]).lev >= mb_lev(mesh, r, p[1]) =>
           send_data[r][p[2]][p[1]] = ZeroBuf
    /\ \A m \in LocalBlocks(mesh, r) : \A i \in Faces :
         IF \E n \in Slots : /\ nghbr(mesh, r, m, n).ccflx
                             /\ nghbr(mesh, r, m, n).lev > mb_lev(mesh, r, m)
                             /\ i = FluxRecvIndcs(n).bis
         THEN (pc[r] = "RecvAndUnpackFluxCC" /\ ret[r] = "complete") =>
                \E n \in Slots :
                  /\ nghbr(mesh, r, m, n).lev > mb_lev(mesh, r, m)
                  /\ i = FluxRecvIndcs(n).bis
                  /\ flx[r][m][i] =
                       FluxPattern(0, nghbr(mesh, r, m, n).gid,
                                   2 * FluxSendIndcs(nghbr(mesh, r, m, n).dest).bis - cis)
         ELSE flx[r][m][i] = FluxPattern(0, mb_gid(mesh, r, m), i)

\* the fine indices along direction a under the coarse index c of a coarse
\* face of direction dir: one index along the face normal, two along a
\* transverse direction, index 0 along a collapsed direction
FineUnder(a, dim, dir, c, cs) ==
  IF a > dim THEN {0}
  ELSE IF a = dir THEN {2 * c - cs}
  ELSE {2 * c - cs, 2 * c - cs + 1}

\* the fine faces lying under coarse face (k, j, i)
CoveringFaces(dim, dir, k, j, i) ==
  FineUnder(3, dim, dir, k, cks(dim)) \X FineUnder(2, dim, dir, j, cjs(dim))
    \X FineUnder(1, dim, dir, i, cis)

RECURSIVE SumFine(_, _, _, _)
SumFine(S, pat, dim, dir) ==
  IF S = {} THEN 0
  ELSE LET f == CHOOSE g \in S : TRUE
       IN FineFlux(pat, dim, dir, f[1], f[2], f[3]) + SumFine(S \ {f}, pat, dim, dir)

\* C19: the pack stores for each coarse face (i, j, k) of the send window the
\* equal-weight mean of exactly the fine faces under it (fine indices
\* 2*i-cis, 2*j-cjs, 2*k-cks and their +1 neighbours in the transverse
\* directions): one value in 1-D, two in 2-D, four in 3-D; the fine values
\* 1, 2, 3, 4 under a coarse face in 3-D give 2.5 (10 quarters).
C19_PackStoresMeanOfCoveringFaces ==
  (kern.stage \in {"packed", "unpacked"} /\ kern.ccflx /\ kern.lev < 0) =>
    \A k \in kern.snd.kl .. kern.snd.ku, j \in kern.snd.jl .. kern.snd.ju,
       i \in kern.snd.il .. kern.snd.iu :
      LET cov == CoveringFaces(kern.dim, FaceDir(kern.n), k, j, i)
          o == (i - kern.snd.il) + Ni(kern.snd) * ((j - kern.snd.jl) + Nj(kern.snd) * (k - kern.snd.kl))
      IN /\ Cardinality(cov) = SubFaces(kern.dim)
         /\ kern.buf[o] * Cardinality(cov) = 4 * SumFine(cov, kern.pat, kern.dim, FaceDir(kern.n))
         /\ (kern.pat = "corner" /\ kern.dim = 3) => kern.buf[o] = 10

C19_Witness ==
  /\ kern.stage = "packed"
  /\ kern.ccflx /\ kern.lev < 0
  /\ kern.dim = 3 /\ kern.pat = "corner" /\ FaceDir(kern.n) = 1
  /\ Nj(kern.snd) > 1 /\ Nk(kern.snd) > 1
  /\ \A o \in 0 .. (Ni(kern.snd) * Nj(kern.snd) * Nk(kern.snd) - 1) : kern.buf[o] = 10
  /\ { FineFlux(kern.pat, 3, 1, f[1], f[2], f[3]) :
         f \in CoveringFaces(3, 1, kern.snd.kl, kern.snd.jl, kern.snd.il) } = {1, 2, 3, 4}

\* the face of the receive window that matches face c of the send window
Matching(c) ==
  << c[1] + (kern.rcv.kl - kern.snd.kl), c[2] + (kern.rcv.jl - kern.snd.jl),
     c[3] + (kern.rcv.il - kern.snd.il) >>

\* C20: for every window the flattened offset (i-il) + ni*((j-jl) + nj*(k-kl))
\* used by the pack equals the offset used by the unpack at the matching
\* face of an equally sized window and maps the faces of the window
\* one-to-one onto 0 .. ni*nj*nk-1, so what was packed for a face is what
\* the unpack writes at the matching face.
C20_OffsetsAgreeAndRoundTrip ==
  LET snd == kern.snd
      rcv == kern.rcv
      cells == (snd.kl .. snd.ku) \X (snd.jl .. snd.ju) \X (snd.il .. snd.iu)
      n == Ni(snd) * Nj(snd) * Nk(snd)
  IN kern.stage = "unpacked" =>
       /\ \A c \in cells :
            /\ PackOffset(snd, c[1], c[2], c[3])
                 = (c[3] - snd.il) + Ni(snd) * ((c[2] - snd.jl) + Nj(snd) * (c[1] - snd.kl))
            /\ PackOffset(snd, c[1], c[2], c[3])
                 = UnpackOffset(rcv, Matching(c)[1], Matching(c)[2], Matching(c)[3])
       /\ { PackOffset(snd, c[1], c[2], c[3]) : c \in cells } = 0 .. (n - 1)
       /\ Cardinality(cells) = n
       /\ (kern.ccflx /\ kern.lev < 0) =>
            \A c \in cells :
              kern.out[Matching(c)] * SubFaces(kern.dim)
                = 4 * SumFine(CoveringFaces(kern.dim, FaceDir(kern.n), c[1], c[2], c[3]),
                              kern.pat, kern.dim, FaceDir(kern.n))

C20_Witness ==
  /\ kern.stage = "unpacked"
  /\ kern.ccflx /\ kern.lev < 0
  /\ kern.dim = 3 /\ kern.pat = "index"
  /\ Ni(kern.snd) > 1 /\ Nj(kern.snd) > 1 /\ Nk(kern.snd) > 1
  /\ kern.rcv # kern.snd
  /\ kern.out[<< kern.rcv.ku, kern.rcv.ju, kern.rcv.iu >>]
       = kern.buf[Ni(kern.snd) * Nj(kern.snd) * Nk(kern.snd) - 1]
  /\ \A c \in WinCells(kern.rcv) : kern.out[c] # OldFlux

\* the (block, slot) pairs of rank r whose pack writes a receive buffer of the
\* rank: flagged, neighbour coarser and on the rank
SameRankFluxSenders(r) ==
  { p \in SameRank(mesh, r) :
      /\ nghbr(mesh, r, p[1], p[2]).ccflx
      /\ nghbr(mesh, r, p[1], p[2]).lev < mb_lev(mesh, r, p[1]) }

\* C21: in one pass of the pack kernel each receive buffer (mm, nn) is
\* written by exactly one sender (m, n): no two distinct senders of a rank
\* have the same destination block and slot, and a pass over clean buffers
\* changes as many receive buffers as there are senders, each buffer holding
\* the restricted flux of its sender.
C21_OneSenderPerRecvBuffer ==
  [][\A r \in Ranks :
       (PackAndSendFluxCC(r) /\ recv_data[r] = PerBuf(mesh, r, ZeroBuf)) =>
         /\ \A p, q \in SameRankFluxSenders(r) :
              p # q => << nghbr(mesh, r, p[1], p[2]).gid, nghbr(mesh, r, p[1], p[2]).dest >>
                         # << nghbr(mesh, r, q[1], q[2]).gid, nghbr(mesh, r, q[1], q[2]).dest >>
         /\ Cardinality({ b \in LocalBlocks(mesh, r) \X Slots :
                            recv_data'[r][b[2]][b[1]] # recv_data[r][b[2]][b[1]] })
              = Cardinality(SameRankFluxSenders(r))
         /\ \A p \in SameRankFluxSenders(r) :
              \E b \in LocalBlocks(mesh, r) \X Slots :
                recv_data'[r][b[2]][b[1]][1] = flx[r][p[1]][2 * FluxSendIndcs(p[2]).bis - cis]]_vars

C21_Witness ==
  \E r \in Ranks :
    /\ pc[r] = "PackAndSendFluxCC"
    /\ Cardinality(SameRankFluxSenders(r)) = 2
    /\ Cardinality({ b \in LocalBlocks(mesh, r) \X Slots : recv_data[r][b[2]][b[1]] # ZeroBuf }) = 2

\* C22 (as stated): no write of the flux exchange changes buffer storage that
\* the cell-variable exchange sends or unpacks: PackAndSendFluxCC leaves alone
\* every receive buffer that holds cell data delivered and not yet unpacked,
\* and every send buffer whose cell-variable send is still in flight.
C22_FluxLeavesCellBuffers ==
  [][\A r \in Ranks :
       PackAndSendFluxCC(r) =>
         \A p \in LocalBlocks(mesh, r) \X Slots :
           /\ var_stat[r][p[2]][p[1]] = "received" =>
                recv_data'[r][p[2]][p[1]] = recv_data[r][p[2]][p[1]]
           /\ send_comm_req[r][p[2]][p[1]].st = "active" =>
                send_data'[r][p[2]][p[1]] = send_data[r][p[2]][p[1]]]_vars

\* C23 (as stated): a transport call that reports an error is fatal: a
\* receive or send that cannot be posted, a probe or test in error, a wait in error
\* or on a transfer that failed ends the run in the error outcome; the task
\* that made the call does not return and marks nothing received, and after
\* the error no task and no transfer goes on.
C23_TransportErrorIsFatal ==
  [][/\ aborted => FALSE
     /\ \A r \in Ranks :
          /\ (InitRecv(r) /\ InitRecvPosts(r) # {} /\ "MPI_Irecv" \in mpi.failing)
               => aborted'
          /\ (PackAndSendFluxCC(r) /\ FluxSends(r) # {} /\ "MPI_Isend" \in mpi.failing)
               => aborted'
          /\ (RecvAndUnpackFluxCC(r) /\ "MPI_Iprobe" \in mpi.failing)
               => (aborted' /\ ret' = ret /\ flx_stat' = flx_stat /\ flx' = flx)
          /\ (RecvAndUnpackFluxCC(r) /\ FluxPolls(r) # {} /\ "MPI_Test" \in mpi.failing)
               => (aborted' /\ ret' = ret /\ flx_stat' = flx_stat /\ flx' = flx)
          /\ (ClearRecv(r) /\ \E p \in ClearRecvWaits(r) :
                                 \/ "MPI_Wait" \in mpi.failing
                                 \/ recv_comm_req[r][p[2]][p[1]].st = "failed")
               => (aborted' /\ ret' = ret)
          /\ (ClearSend(r) /\ \E p \in ClearSendWaits(r) :
                                 \/ "MPI_Wait" \in mpi.failing
                                 \/ send_comm_req[r][p[2]][p[1]].st = "failed")
               => (aborted' /\ ret' = ret)]_vars

\* the buffers InitializeBuffers has set
Materialized == { s \in AllSlots : bufs.send[s].set \/ bufs.recv[s].set }

\* the number of direction and sub-block combinations of a mesh
ExpectedSlots(dim, ml) ==
  IF dim = 1 THEN 2
  ELSE IF dim = 2 THEN (IF ml THEN 12 ELSE 8)
  ELSE (IF ml THEN 56 ELSE 26)

\* C24: InitializeBuffers materializes only slots whose direction has no
\* component along a collapsed axis: the x1 faces in 1-D (2 combinations), x1
\* and x2 faces and x1x2 edges in 2-D (8 uniform, 12 multilevel), all faces,
\* edges and corners in 3-D (26 uniform, 56 multilevel).
C24_MaterializedSlotsByDimension ==
  Len(bufs.hist) >= 1 =>
    /\ Cardinality(Materialized) = ExpectedSlots(bufs.dim, bufs.multilevel)
    /\ \A s \in Materialized :
         /\ bufs.send[s].set
         /\ bufs.dim < 2 => bufs.send[s].indcs.args[2] = 0
         /\ bufs.dim < 3 => bufs.send[s].indcs.args[3] = 0
         /\ \E c \in 1 .. 3 : bufs.send[s].indcs.args[c] # 0
    /\ bufs.dim = 1 => Materialized \subseteq 0 .. 7
    /\ bufs.dim = 2 => Materialized \subseteq 0 .. 23

C24_Witness ==
  /\ Len(bufs.hist) = 1
  /\ bufs.dim = 2 /\ bufs.multilevel
  /\ Cardinality(Materialized) = 12
  /\ ~bufs.send[24].set

\* C30: for every slot InitializeBuffers materializes, the send windows and
\* the receive windows are computed with the same direction and sub-block
\* arguments and both buffers are allocated for the same block count and
\* nvar; no slot has only one of its two buffers set.
C30_SendAndRecvSetAlike ==
  Len(bufs.hist) >= 1 =>
    \A s \in AllSlots :
      /\ bufs.send[s].set = bufs.recv[s].set
      /\ bufs.send[s].set =>
           /\ bufs.send[s].indcs.fn = "InitSendIndices"
           /\ bufs.recv[s].indcs.fn = "InitRecvIndices"
           /\ bufs.send[s].indcs.args = bufs.recv[s].indcs.args
           /\ bufs.send[s].data = bufs.recv[s].data
           /\ bufs.send[s].data.nmb = bufs.nmb
           /\ bufs.send[s].data.nvar = bufs.hist[Len(bufs.hist)]

C30_Witness ==
  /\ Len(bufs.hist) >= 1
  /\ bufs.dim = 3
  /\ bufs.send[48].set /\ bufs.recv[48].set
  /\ bufs.send[48].indcs.args = << 0 - 1, 0 - 1, 0 - 1, 0, 0 >>

\* the pairs of rank r whose neighbour is on another rank and whose flux
\* status is received
FluxReceivedRemote(r) ==
  { p \in CrossRank(mesh, r) : flx_stat[r][p[2]][p[1]] = "received" }

\* C26: step 1 of RecvAndUnpackFluxCC skips a (block, slot) already marked
\* received: its handle is not polled again and its status stays received.
C26_ReceivedIsNotPolledAgain ==
  [][\A r \in Ranks :
       RecvAndUnpackFluxCC(r) =>
         /\ FluxPolls(r) \cap FluxReceivedRemote(r) = {}
         /\ \A p \in FluxReceivedRemote(r) : flx_stat'[r][p[2]][p[1]] = "received"]_vars

\* a step of rank r that sets the status old to new without the right to
StatusMoved(r, old, new) ==
  \/ new = "waiting" /\ old # "waiting" /\ ~InitRecv(r)
  \/ old = "received" /\ new # "received" /\ ~InitRecv(r)
  \/ new = "undef" /\ old # "undef"

\* C27: InitRecv is the only operation that sets a status to waiting: a call
\* of it that returns sets every status of a valid neighbour to waiting, and
\* a call that ends the run on the way changes a status to waiting only;
\* PackAndSendFluxCC, RecvAndUnpackFluxCC, ClearRecv and ClearSend never move
\* a status from received back to waiting or to undef, so a status marked
\* received stays received until the next InitRecv.
C27_OnlyInitRecvResets ==
  [][\A r \in Ranks :
       /\ \A m \in LocalBlocks(mesh, r), n \in Slots :
            /\ ~StatusMoved(r, flx_stat[r][n][m], flx_stat'[r][n][m])
            /\ ~StatusMoved(r, var_stat[r][n][m], var_stat'[r][n][m])
       /\ (InitRecv(r) /\ ~aborted') =>
            \A p \in Valid(mesh, r) :
              /\ flx_stat'[r][p[2]][p[1]] = "waiting"
              /\ var_stat'[r][p[2]][p[1]] = "waiting"
       /\ (InitRecv(r) /\ aborted') =>
            \A m \in LocalBlocks(mesh, r), n \in Slots :
              /\ flx_stat'[r][n][m] \in {flx_stat[r][n][m], "waiting"}
              /\ var_stat'[r][n][m] \in {var_stat[r][n][m], "waiting"}]_vars

C27_Witness ==
  \E r \in Ranks :
    /\ pc[r] = "ClearSend"
    /\ \E p \in Valid(mesh, r) : flx_stat[r][p[2]][p[1]] = "received"

\* the messages in flight that a peer has sent for the pair (m, n) of rank r
SentFor(r, m, n) ==
  { x \in 1 .. Len(msgs) :
      msgs[x].dst = r /\ msgs[x].lid = m /\ msgs[x].bufid = n
      /\ msgs[x].src = nghbr(mesh, r, m, n).rank }

\* C28: the receive InitRecv posts for a cross-rank (block, slot) has the
\* size of the coarser, same-level or finer window by the neighbour's level,
\* and that size is the length of the message the peer sends for the pair.
C28_RecvSizeIsSentLength ==
  \A r \in Ranks : \A p \in CrossRank(mesh, r) :
    recv_comm_req[r][p[2]][p[1]].st = "active" =>
      /\ recv_comm_req[r][p[2]][p[1]].size = RecvDataSize(r, p[1], p[2])
      /\ \A x \in SentFor(r, p[1], p[2]) :
           Len(msgs[x].data) = recv_comm_req[r][p[2]][p[1]].size

\* the (block, slot) pairs of rank r without neighbour
NoNeighbour(r) == (LocalBlocks(mesh, r) \X Slots) \ Valid(mesh, r)

\* C29: for a (block, slot) pair whose neighbour gid is negative,
\* PackAndSendFluxCC writes no send-buffer or receive-buffer entry, marks no
\* status and issues no send, whatever level and flag the record holds.
C29_NoNeighbourIsSkipped ==
  \A r \in Ranks : \A p \in NoNeighbour(r) :
    /\ send_data[r][p[2]][p[1]] = ZeroBuf
    /\ recv_data[r][p[2]][p[1]] = ZeroBuf
    /\ flx_stat[r][p[2]][p[1]] = "undef"
    /\ send_flx_req[r][p[2]][p[1]].st = "uninit"

\* C31: every handle RecvAndUnpackFluxCC polls for a cross-rank (block,
\* slot) was posted as a receive by the InitRecv of the cycle; no poll and no
\* wait is made on a handle no transfer was posted on.
C31_PolledHandleWasPosted ==
  [][\A r \in Ranks :
       /\ RecvAndUnpackFluxCC(r) =>
            \A p \in FluxPolls(r) : recv_flx_req[r][p[2]][p[1]].st # "uninit"
       /\ ClearRecv(r) =>
            \A p \in ClearRecvWaits(r) : recv_comm_req[r][p[2]][p[1]].st # "absent"
       /\ ClearSend(r) =>
            \A p \in ClearSendWaits(r) : send_comm_req[r][p[2]][p[1]].st # "absent"]_vars

\* C32: every buffer index InitializeBuffers reads or writes lies in
\* 0..nnghbr-1, the range the constructor created status flags and handles
\* for.
C32_IndicesWithinNnghbr ==
  Len(bufs.hist) >= 1 =>
    /\ Materialized \subseteq 0 .. (nnghbrOf(bufs.dim) - 1)
    /\ bufs.read \subseteq 0 .. (nnghbrOf(bufs.dim) - 1)

\* the (block, slot) pairs of rank r for which PackAndSendFluxCC writes on
\* this rank: the kernel into rbuf[nn].data(mm, ...), the host loop into
\* rbuf[nn].flx_stat[mm]
KernelSameRank(r) ==
  { p \in LocalBlocks(mesh, r) \X Slots :
      /\ nghbr(mesh, r, p[1], p[2]).ccflx
      /\ nghbr(mesh, r, p[1], p[2]).lev < mb_lev(mesh, r, p[1])
      /\ nghbr(mesh, r, p[1], p[2]).rank = r }
HostSameRank(r) ==
  { p \in LocalBlocks(mesh, r) \X Slots :
      /\ nghbr(mesh, r, p[1], p[2]).gid >= 0
      /\ nghbr(mesh, r, p[1], p[2]).rank = r }

\* C33 (as stated): every same-rank write of PackAndSendFluxCC targets a receive buffer
\* entry and a status of a block of this pack: 0 <= mm < nmb and
\* 0 <= nn < nnghbr for every pair the kernel or the host loop processes, and
\* the entry written is the one of block mm, slot nn.
C33_SameRankWritesInPack ==
  [][\A r \in Ranks :
       PackAndSendFluxCC(r) =>
         /\ \A p \in KernelSameRank(r) \cup HostSameRank(r) :
              /\ DestBlock(r, p[1], p[2]) \in 0 .. (nmb(mesh, r) - 1)
              /\ DestSlot(r, p[1], p[2]) \in 0 .. (nnghbr - 1)
         /\ \A p \in HostSameRank(r) :
              flx_stat'[r][nghbr(mesh, r, p[1], p[2]).dest]
                          [nghbr(mesh, r, p[1], p[2]).gid - mb_gid(mesh, r, 0)] = "received"]_vars

\* C35: PackAndSendFluxCC and RecvAndUnpackFluxCC change only the flux
\* status of a (block, slot) and leave its cell-variable status unchanged;
\* InitRecv is the only operation that changes both, and a call of it that
\* returns sets both for every pair with a neighbour.
C35_FluxOpsLeaveVarStat ==
  [][/\ \A r \in Ranks :
          /\ (PackAndSendFluxCC(r) \/ RecvAndUnpackFluxCC(r)) => var_stat' = var_stat
          /\ (InitRecv(r) /\ ~aborted') =>
               \A p \in Valid(mesh, r) :
                 /\ var_stat'[r][p[2]][p[1]] = "waiting"
                 /\ flx_stat'[r][p[2]][p[1]] = "waiting"
     /\ (var_stat' # var_stat /\ flx_stat' # flx_stat) => \E r \in Ranks : InitRecv(r)
     /\ var_stat' # var_stat => \E r \in Ranks : InitRecv(r)]_vars

C35_Witness ==
  \E r \in Ranks :
    /\ pc[r] = "RecvAndUnpackFluxCC"
    /\ \E p \in SameRank(mesh, r) :
         /\ flx_stat[r][p[2]][p[1]] = "received"
         /\ var_stat[r][p[2]][p[1]] = "waiting"
    /\ \E p \in CrossRank(mesh, r) :
         /\ flx_stat[r][p[2]][p[1]] = "received"
         /\ var_stat[r][p[2]][p[1]] = "waiting"

\* C36: RecvAndUnpackFluxCC called again after it returned complete, with
\* no InitRecv or PackAndSendFluxCC of the rank in between, returns complete
\* again and leaves every face flux and every status as they were.
C36_CompleteIsIdempotent ==
  [][\A r \in Ranks :
       (pc[r] = "RecvAndUnpackFluxCC" /\ ret[r] = "complete" /\ RecvAndUnpackFluxCC(r)) =>
         /\ ~aborted'
         /\ ret'[r] = "complete"
         /\ flx'[r] = flx[r]
         /\ flx_stat'[r] = flx_stat[r]
         /\ var_stat'[r] = var_stat[r]]_vars

\* a rank whose call has returned complete with the handle of every pair it
\* polls found completed and with a face flux it unpacks
C36_Witness ==
  \E r \in Ranks :
    /\ pc[r] = "RecvAndUnpackFluxCC" /\ ret[r] = "complete"
    /\ FluxPolls(r) # {}
    /\ FluxUnpackers(r) # {}
    /\ \A p \in FluxPolls(r) :
         /\ recv_flx_req[r][p[2]][p[1]].st = "null"
         /\ flx_stat[r][p[2]][p[1]] = "received"

\* C37: every path by which main returns after the transport was
\* initialized (help, show-config, missing option argument, missing input
\* file, the -n parameter dump, the -m mesh-structure dump, normal
\* completion) has finalized the transport exactly once.
C37_FinalizedOnceOnReturn ==
  (prog.pc = "returned" /\ prog.initialized) => prog.finalized = 1

\* C38: when an option that requires an argument is last on the command line
\* or is followed by another option, the rank terminates before the argument
\* is read: it consumes no element as the option's value and builds no mesh.
C38_MissingArgumentStops ==
  prog.pc # "none" =>
    /\ prog.missing \in {"-i", "-r", "-d", "-t"} =>
         (prog.pc = "returned" /\ prog.path = "missing argument" /\ ~prog.mesh_built)
    /\ \A x \in 1 .. Len(prog.taken) :
         /\ prog.taken[x][2] <= Len(prog.argv)
         /\ ~StartsWithDash(prog.argv[prog.taken[x][2]])

====
